---------------------------- MODULE Spec2Model ----------------------------
(***************************************************************************)
(* Energy demand forecasting core: the ensemble predictor (full variant,   *)
(* models/ensemble_predictor.py, and light variant,                        *)
(* models/ensemble_predictor_simple.py), the preprocessor's scalers, the   *)
(* sequence forecaster's multi-step rollout and the trend forecaster.      *)
(*                                                                         *)
(* Numbers.  Demand values are integers.  A value in the scaler's [0,1]    *)
(* space is held as an integer count of 1/D, D the least common multiple   *)
(* of every possible data range, so MinMax scaling and its inverse are     *)
(* exact.  A forecast row holds its columns in tenths of a demand unit     *)
(* (the weights 0.6/0.4, the factors 0.5 and 0.1 are then integers).       *)
(* A confidence is a fraction num/den, or "nan".                           *)
(***************************************************************************)
EXTENDS Integers, Sequences, FiniteSets, TLC

\* ---- bounds of the model ----
ValMax == 2          \* demand samples of an input table range over 0..ValMax
MaxLag == 2          \* the largest configured lag (config.LAG_FEATURES ends in 168)
SeqLen == 2          \* prepare_lstm_data's sequence_length (24 in the source)
MaxWindows == 2      \* an input table yields at most this many windows
MaxHours == 2        \* hours_ahead of a predict call
MaxBias == 1         \* a network's output offset ranges over -MaxBias..0
PLevelMax == 3       \* a fitted trend level is -PLevelMax, 0 or PLevelMax
MaxBand == 1         \* half-width of the trend model's native interval: 1..MaxBand

\* ---- program constants ----
W_LSTM == 6          \* config.ENSEMBLE_WEIGHTS['lstm'] = 0.6, in tenths
W_PROPHET == 4       \* config.ENSEMBLE_WEIGHTS['prophet'] = 0.4, in tenths
N_FEATURES_DEFAULT == 8   \* LSTMForecaster.__init__(n_features=8)

\* Python's None, and a present value
None == <<>>
Some(x) == <<x>>

Abs(x) == IF x < 0 THEN -x ELSE x

RECURSIVE Gcd(_, _)
Gcd(a, b) == IF b = 0 THEN a ELSE Gcd(b, a % b)

RECURSIVE LcmUpTo(_)
LcmUpTo(n) == IF n <= 1 THEN 1 ELSE LET l == LcmUpTo(n - 1) IN (l * n) \div Gcd(l, n)

\* one unit of the scaled [0,1] space is D counts
D == LcmUpTo(ValMax)

SeqMin(s) == CHOOSE m \in {s[i] : i \in DOMAIN s} : \A i \in DOMAIN s : m <= s[i]
SeqMax(s) == CHOOSE m \in {s[i] : i \in DOMAIN s} : \A i \in DOMAIN s : m >= s[i]

\* ---- input tables ----
\* LAG_FEATURES [1, 24, 168], scaled to the model's bound
Lags == <<1, MaxLag>>

MaxRows == MaxLag + SeqLen + MaxWindows

\* A caller's table: the energy_demand column, hourly rows, no missing value.
\* Tables alternate between two sample values a <= b.
Table(n, a, b) == [energy_demand |-> [i \in 1..n |-> IF i % 2 = 1 THEN a ELSE b]]

\* fewer usable rows than a window needs (one usable row), exactly a
\* window's worth (still no window), one window, and MaxWindows windows
TableLengths == {MaxLag + 1, MaxLag + SeqLen, MaxLag + SeqLen + 1, MaxRows}

\* the two demand values a table alternates between: constant tables at the
\* ends of the range, and every spread that touches an end of the range
SamplePairs == {q \in (0..ValMax) \X (0..ValMax) : q[1] <= q[2] /\ (q[1] = 0 \/ q[2] = ValMax)}

Tables == {Table(n, q[1], q[2]) : n \in TableLengths, q \in SamplePairs}

Hours == {MaxHours}

\* ---- utils/preprocessor.py ----
MaxRawLen == 6       \* rows of a table that may have missing values

\* fillna(method='ffill', limit=3)
FFILL_LIMIT == 3

\* interpolated values are held in counts of 1/F
F == LcmUpTo(MaxRawLen)

\* create_lag_features + handle_missing_values: the rows whose lag columns
\* are all defined; row j of the table survives iff j > MaxLag.  Each usable
\* row is <<target, lag columns...>>.
UsableRows(df) ==
    LET y == df.energy_demand
        n == Len(y)
    IN  IF n <= MaxLag THEN <<>>
        ELSE [i \in 1..(n - MaxLag) |->
                <<y[i + MaxLag]>> \o [k \in 1..Len(Lags) |-> y[i + MaxLag - Lags[k]]]]

\* mutant: every lag column is shifted one row too little
create_lag_features_OffByOne(y, lags) ==
    [i \in 1..Len(y) |->
        <<y[i]>> \o [k \in 1..Len(lags) |-> IF i > lags[k] - 1 THEN y[i - lags[k] + 1] ELSE None]]

\* A frame cell is None (NaN) or Some(value).  create_lag_features: column
\* 1 is the target, column k+1 the target shifted down by lags[k] rows.
\* (The rolling columns lose no row the largest lag keeps, and the time
\* columns have no missing value; neither is carried here.)
create_lag_features(y, lags) ==
    [i \in 1..Len(y) |->
        <<y[i]>> \o [k \in 1..Len(lags) |-> IF i > lags[k] THEN y[i - lags[k]] ELSE None]]

\* the nearest observed entry before i (0 when there is none) and after i
\* (Len + 1 when there is none)
LastObs(col, i) ==
    LET ps == {p \in 1..(i - 1) : col[p] # None}
    IN  IF ps = {} THEN 0 ELSE CHOOSE p \in ps : \A r \in ps : r <= p

NextObs(col, i) ==
    LET qs == {q \in (i + 1)..Len(col) : col[q] # None}
    IN  IF qs = {} THEN Len(col) + 1 ELSE CHOOSE q \in qs : \A r \in qs : q <= r

\* fillna(method='ffill', limit=limit) on one column
ffill(col, limit) ==
    [i \in 1..Len(col) |->
        IF col[i] # None THEN col[i]
        ELSE LET p == LastObs(col, i)
             IN  IF p > 0 /\ i - p <= limit THEN col[p] ELSE None]

\* interpolate(method='linear') on one column: between two observed
\* entries the straight line, after the last observed entry its value,
\* before the first nothing.  Values are held in counts of 1/F.
interpolate(col) ==
    [i \in 1..Len(col) |->
        IF col[i] # None THEN col[i]
        ELSE LET p == LastObs(col, i)
                 q == NextObs(col, i)
             IN  IF p = 0 THEN None
                 ELSE IF q > Len(col) THEN col[p]
                 ELSE Some(col[p][1] + ((i - p) * (col[q][1] - col[p][1])) \div (q - p))]

\* the indices of the rows dropna keeps, in order
RECURSIVE KeptFrom(_, _)
KeptFrom(frame, i) ==
    IF i > Len(frame) THEN <<>>
    ELSE (IF \A c \in DOMAIN frame[i] : frame[i][c] # None THEN <<i>> ELSE <<>>)
         \o KeptFrom(frame, i + 1)

\* mutant: what forward fill leaves missing is set to zero
handle_missing_values_ZeroFill(frame) ==
    LET n == Len(frame)
        cols == DOMAIN frame[1]
        scaled == [c \in cols |->
                     [i \in 1..n |-> IF frame[i][c] = None THEN None
                                     ELSE Some(F * frame[i][c][1])]]
        filled == [c \in cols |->
                     LET f == ffill(scaled[c], FFILL_LIMIT)
                     IN  [i \in 1..n |-> IF f[i] = None THEN Some(0) ELSE f[i]]]
        out == [i \in 1..n |-> [c \in cols |-> filled[c][i]]]
        index == KeptFrom(out, 1)
    IN  [index |-> index, rows |-> [j \in 1..Len(index) |-> out[index[j]]]]

\* handle_missing_values: forward fill, interpolation, dropna.  index holds
\* the original positions of the rows kept; values are in counts of 1/F.
handle_missing_values(frame) ==
    LET n == Len(frame)
        cols == DOMAIN frame[1]
        scaled == [c \in cols |->
                     [i \in 1..n |-> IF frame[i][c] = None THEN None
                                     ELSE Some(F * frame[i][c][1])]]
        filled == [c \in cols |-> interpolate(ffill(scaled[c], FFILL_LIMIT))]
        out == [i \in 1..n |-> [c \in cols |-> filled[c][i]]]
        index == KeptFrom(out, 1)
    IN  [index |-> index, rows |-> [j \in 1..Len(index) |-> out[index[j]]]]

\* MinMaxScaler.fit: data_min_, data_max_ of one column
FitColumn(col) == [data_min |-> SeqMin(col), data_max |-> SeqMax(col)]

\* MinMaxScaler: a zero data range scales by 1
DataRange(sc) == IF sc.data_max = sc.data_min THEN 1 ELSE sc.data_max - sc.data_min

\* MinMaxScaler.transform of one value, in counts of 1/D
Transform(sc, v) == ((v - sc.data_min) * D) \div DataRange(sc)

\* DataPreprocessor.inverse_scale of one scaled value (counts of 1/D)
inverse_scale(sc, x) == (x * DataRange(sc)) \div D + sc.data_min

Column(rows, c) == [i \in 1..Len(rows) |-> rows[i][c]]

\* the feature columns of a usable row are columns 2..NCols
NCols == 1 + Len(Lags)

\* mutant: the target of a pair is the last row of its window
prepare_lstm_data_LastOfWindow(df, old_fs) ==
    LET rows == UsableRows(df)
        U == Len(rows)
    IN  IF U = 0
        THEN [raised |-> TRUE, scaler |-> None, feature_scaler |-> old_fs,
              X |-> <<>>, y |-> <<>>, scaled |-> <<>>]
        ELSE LET sc == FitColumn(Column(rows, 1))
                 fs == [c \in 1..Len(Lags) |-> FitColumn(Column(rows, c + 1))]
                 scaled == [i \in 1..U |->
                              <<Transform(sc, rows[i][1])>> \o
                              [c \in 1..Len(Lags) |-> Transform(fs[c], rows[i][c + 1])]]
                 X == IF U <= SeqLen THEN <<>>
                      ELSE [w \in 1..(U - SeqLen) |-> SubSeq(scaled, w, w + SeqLen - 1)]
                 y == IF U <= SeqLen THEN <<>>
                      ELSE [w \in 1..(U - SeqLen) |-> scaled[w + SeqLen - 1][1]]
             IN  [raised |-> FALSE, scaler |-> Some(sc), feature_scaler |-> Some(fs),
                  X |-> X, y |-> y, scaled |-> scaled]

\* prepare_lstm_data: the scalers it fits and the windows it builds.
\* With no usable row the target scaler's fit resets it and raises.
prepare_lstm_data(df, old_fs) ==
    LET rows == UsableRows(df)
        U == Len(rows)
    IN  IF U = 0
        THEN [raised |-> TRUE, scaler |-> None, feature_scaler |-> old_fs,
              X |-> <<>>, y |-> <<>>, scaled |-> <<>>]
        ELSE LET sc == FitColumn(Column(rows, 1))
                 fs == [c \in 1..Len(Lags) |-> FitColumn(Column(rows, c + 1))]
                 scaled == [i \in 1..U |->
                              <<Transform(sc, rows[i][1])>> \o
                              [c \in 1..Len(Lags) |-> Transform(fs[c], rows[i][c + 1])]]
                 X == IF U <= SeqLen THEN <<>>
                      ELSE [w \in 1..(U - SeqLen) |-> SubSeq(scaled, w, w + SeqLen - 1)]
                 y == IF U <= SeqLen THEN <<>>
                      ELSE [w \in 1..(U - SeqLen) |-> scaled[w + SeqLen][1]]
             IN  [raised |-> FALSE, scaler |-> Some(sc), feature_scaler |-> Some(fs),
                  X |-> X, y |-> y, scaled |-> scaled]


\* ---- models/lstm_model.py: LSTMForecaster ----
\* The network's weights are an unknown function of the training data: a
\* network is [n_in, fitted, bias], n_in the feature count of its input
\* layer, bias standing for its weights.  Its one-step output, in counts of
\* 1/D, depends on the window's most recent target value.
LBiases == (0 - MaxBias)..0

\* self.model.predict(window): one scaled value
ModelPredict(m, window) ==
    (m.bias + (IF 2 * window[Len(window)][1] >= D THEN 1 ELSE 0)) * D

\* keras.Sequential built by build_model with the instance's n_features
build_model(n_features, b) == [n_in |-> n_features, fitted |-> FALSE, bias |-> b]

\* mutant: the given future covariates are ignored
NewCovariates_Repeat(cur, i, features) == Tail(cur[Len(cur)])

\* the covariates of the appended row: features[i] when given, else the
\* covariates of the window's last row (i counts from 0 as in the source)
NewCovariates(cur, i, features) ==
    IF features # None /\ i < Len(features[1])
    THEN features[1][i + 1]
    ELSE Tail(cur[Len(cur)])

\* one pass of predict_sequence's loop body: the window after the shift
ShiftWindow(cur, pred, i, features) ==
    Tail(cur) \o << <<pred>> \o NewCovariates(cur, i, features) >>

\* reshape(1, sequence_length, n_features) needs exactly that many cells,
\* and the network accepts only windows of its own input width
WindowFits(m, sequence_length, n_features, window) ==
    /\ Len(window) > 0
    /\ Len(window) * Len(window[1]) = sequence_length * n_features
    /\ m.n_in = n_features

\* the shift of one pass: the covariates assigned to new_row[0, 1:] must
\* have its width (or width 1, which numpy broadcasts), and np.vstack needs
\* the window's rows to be as wide as new_row
ShiftFits(cur, i, features, n_features) ==
    /\ Len(cur) > 0
    /\ Len(cur[1]) = n_features
    /\ LET cov == NewCovariates(cur, i, features)
       IN  Len(cov) = n_features - 1 \/ Len(cov) = 1

\* predict_sequence's loop from pass i on, preds the predictions so far:
\* None when a pass raises, else Some(all predictions)
RECURSIVE RollFrom(_, _, _, _, _, _)
RollFrom(l, cur, i, n_steps, features, preds) ==
    IF i >= n_steps THEN Some(preds)
    ELSE IF ~WindowFits(l.model[1], l.sequence_length, l.n_features, cur) THEN None
    ELSE IF ~ShiftFits(cur, i, features, l.n_features) THEN None
    ELSE LET pred == ModelPredict(l.model[1], cur)
         IN  RollFrom(l, ShiftWindow(cur, pred, i, features), i + 1, n_steps, features,
                      Append(preds, pred))

\* LSTMForecaster.predict_sequence: None stands for a raised exception
predict_sequence(l, initial_sequence, n_steps, features) ==
    IF l.model = None THEN None
    ELSE RollFrom(l, initial_sequence, 0, n_steps, features, <<>>)

\* ---- models/prophet_model.py: ProphetForecaster ----
\* A fitted trend model is [level, band]: its point forecast and the
\* half-width of its native interval.
PLevels == {0 - PLevelMax, 0, PLevelMax}
PBands == {MaxBand}

\* ProphetForecaster.predict_future: periods rows of yhat and native bounds
predict_future(pm, periods) ==
    [k \in 1..periods |->
        [yhat |-> pm.level, yhat_lower |-> pm.level - pm.band, yhat_upper |-> pm.level + pm.band]]

\* ---- models/ensemble_predictor.py: the combiner ----
HALF == 5            \* uncertainty = disagreement * 0.5, in tenths
TENTH == 1           \* uncertainty = prediction * 0.1, in tenths

\* mutant: the upper native bound is taken for the point forecast
predict_prophet_Upper(forecast) == [k \in 1..Len(forecast) |-> forecast[k].yhat_upper]

\* predict_prophet keeps the yhat column of predict_future's rows
predict_prophet(forecast) == [k \in 1..Len(forecast) |-> forecast[k].yhat]

\* The rows predict builds when at least one forecast is present: one row
\* per hour, columns in tenths.  lstm_pred and prophet_pred are None or
\* Some(sequence of demand values); the weights are in tenths.
CombineRows(lstm_pred, prophet_pred, hours_ahead, w_lstm, w_prophet) ==
    [k \in 1..hours_ahead |->
        LET both == lstm_pred # None /\ prophet_pred # None
            ensemble_pred ==
                IF both THEN w_lstm * lstm_pred[1][k] + w_prophet * prophet_pred[1][k]
                ELSE IF lstm_pred # None THEN 10 * lstm_pred[1][k]
                ELSE 10 * prophet_pred[1][k]
            uncertainty ==
                IF both THEN HALF * Abs(lstm_pred[1][k] - prophet_pred[1][k])
                ELSE IF lstm_pred # None THEN TENTH * lstm_pred[1][k]
                ELSE TENTH * prophet_pred[1][k]
        IN  [predicted_demand |-> ensemble_pred,
             lower_bound |-> ensemble_pred - uncertainty,
             upper_bound |-> ensemble_pred + uncertainty,
             lstm_prediction |->
                 IF lstm_pred # None THEN 10 * lstm_pred[1][k] ELSE ensemble_pred,
             prophet_prediction |->
                 IF prophet_pred # None THEN 10 * prophet_pred[1][k] ELSE ensemble_pred]]

\* mutant: the two weights exchanged
Combine_SwappedWeights(lstm_pred, prophet_pred, hours_ahead) ==
    IF lstm_pred = None /\ prophet_pred = None THEN <<>>
    ELSE CombineRows(lstm_pred, prophet_pred, hours_ahead, W_PROPHET, W_LSTM)

\* mutant: one failed forecaster fails the call
Combine_NoFallback(lstm_pred, prophet_pred, hours_ahead) ==
    IF lstm_pred = None \/ prophet_pred = None THEN <<>>
    ELSE CombineRows(lstm_pred, prophet_pred, hours_ahead, W_LSTM, W_PROPHET)

\* mutant: with both forecasters failed, a table of zeros is returned
Combine_ZeroForecast(lstm_pred, prophet_pred, hours_ahead) ==
    IF lstm_pred = None /\ prophet_pred = None
    THEN CombineRows(Some([k \in 1..hours_ahead |-> 0]), None, hours_ahead, W_LSTM, W_PROPHET)
    ELSE CombineRows(lstm_pred, prophet_pred, hours_ahead, W_LSTM, W_PROPHET)

\* The combination step of predict; both forecasts None raises ("Both
\* models failed to predict!"), shown as the empty table.
Combine(lstm_pred, prophet_pred, hours_ahead) ==
    IF lstm_pred = None /\ prophet_pred = None THEN <<>>
    ELSE CombineRows(lstm_pred, prophet_pred, hours_ahead, W_LSTM, W_PROPHET)

\* clip(0, 100) of the fraction num/den, den > 0
Clip(num, den) ==
    IF num < 0 THEN [num |-> 0, den |-> 1]
    ELSE IF num > 100 * den THEN [num |-> 100, den |-> 1]
    ELSE [num |-> num, den |-> den]

\* predict_with_confidence's column: 100 * (1 - (upper - lower) / (2 * point)),
\* clipped.  Float division by zero gives nan for 0/0 and a signed infinity
\* otherwise; clip leaves nan alone.
Confidence(row) ==
    LET width == row.upper_bound - row.lower_bound
        twice == 2 * row.predicted_demand
    IN  IF twice = 0
        THEN IF width = 0 THEN [nan |-> TRUE, num |-> 0, den |-> 1]
             ELSE IF width > 0 THEN [nan |-> FALSE, num |-> 0, den |-> 1]
             ELSE [nan |-> FALSE, num |-> 100, den |-> 1]
        ELSE LET n == IF twice > 0 THEN 100 * (twice - width) ELSE 100 * (width - twice)
                 d == Abs(twice)
                 c == Clip(n, d)
             IN  [nan |-> FALSE, num |-> c.num, den |-> c.den]

WithConfidence(results) ==
    [k \in 1..Len(results) |->
        [predicted_demand |-> results[k].predicted_demand,
         lower_bound |-> results[k].lower_bound,
         upper_bound |-> results[k].upper_bound,
         lstm_prediction |-> results[k].lstm_prediction,
         prophet_prediction |-> results[k].prophet_prediction,
         confidence |-> Confidence(results[k])]]

\* ---- state ----
VARIABLES
    trained,         \* EnsemblePredictor.trained
    lstm,            \* lstm_model: [model, n_features, sequence_length]
    prophet,         \* prophet_model: [model, fitted]
    scaler,          \* preprocessor.scaler: None or Some([data_min, data_max])
    feature_scaler,  \* preprocessor.feature_scaler: None or Some(per column)
    saved,           \* the file saved_models/lstm_model.h5: None or Some(network)
    outcome,         \* the last call: its name, how it ended, what it returned
    variant,         \* which EnsemblePredictor class the process imported
    lite,            \* the light variant's fields (ensemble_predictor_simple.py)
    lite_saved,      \* the file saved_models/ensemble_stats.pkl: None or Some(fields)
    calls,           \* concurrent predict calls: per thread, position and locals
    roll,            \* a predict_sequence call in progress: position and locals
    app,             \* the serving process: where initialize_system stands
    prep,            \* a DataPreprocessor call chain: its step and its frames
    det              \* an AnomalyDetector call: its input and what it returned

vars == <<trained, lstm, prophet, scaler, feature_scaler, saved, outcome,
          variant, lite, lite_saved, calls, roll, app, prep, det>>

NoOutcome ==
    [op |-> "none", status |-> "ok", error |-> "", value |-> "", n_usable |-> 0, hours |-> 0,
     lstm_pred |-> None, prophet_pred |-> None, prophet_forecast |-> None,
     results |-> <<>>]

\* LSTMForecaster.__init__
NewLSTM == [model |-> None, n_features |-> N_FEATURES_DEFAULT, sequence_length |-> SeqLen]

\* ProphetForecaster.__init__
NewProphet == [model |-> None, fitted |-> FALSE]

\* EnsemblePredictor.__init__ of the light variant
NewLite ==
    [trained |-> FALSE, historical_mean |-> None, historical_std |-> None,
     hourly_patterns |-> None, daily_patterns |-> None]

Threads == {1, 2}

\* no predict call in flight
NoCalls == [t \in Threads |-> [pc |-> "idle"]]

\* no predict_sequence call in flight
NoRoll == [pc |-> "idle"]

\* no process started: the module globals of app.py before initialize_system
NoApp == [pc |-> "down", data |-> None, loaded |-> FALSE, origin |-> None]

\* no preprocessing call made yet
NoPrep == [pc |-> "idle"]

\* no detector call made yet
NoDet == [op |-> "none"]

\* EnsemblePredictor.__init__ of either variant; the model file is there or not
Init ==
    /\ trained = FALSE
    /\ lstm = NewLSTM
    /\ prophet = NewProphet
    /\ scaler = None
    /\ feature_scaler = None
    /\ saved \in {None, Some([n_in |-> NCols, fitted |-> TRUE, bias |-> 0])}
    /\ outcome = NoOutcome
    /\ variant \in {"full", "light"}
    /\ lite = NewLite
    /\ lite_saved = None
    /\ calls = NoCalls
    /\ roll = NoRoll
    /\ app = NoApp
    /\ prep = NoPrep
    /\ det = NoDet

Raised(op, err, df) ==
    [NoOutcome EXCEPT !.op = op, !.status = "error", !.error = err,
                      !.n_usable = Len(UsableRows(df))]

\* EnsemblePredictor.train.  Prophet first (a Prophet object can be fit only
\* once: a second fit raises), then the windows, then the network.
Train(df) ==
    IF prophet.fitted
    THEN /\ outcome' = Raised("train", "Exception: Prophet fit twice", df)
         /\ UNCHANGED <<trained, lstm, prophet, scaler, feature_scaler, saved>>
    ELSE \E level \in PLevels, band \in PBands, b \in LBiases :
         LET p == prepare_lstm_data(df, feature_scaler)
             split_idx == (Len(p.X) * 8) \div 10
             net == IF lstm.model = None THEN build_model(NCols, b) ELSE lstm.model[1]
         IN  /\ prophet' = [model |-> Some([level |-> level, band |-> band]), fitted |-> TRUE]
             /\ scaler' = p.scaler
             /\ feature_scaler' = p.feature_scaler
             /\ UNCHANGED saved
             /\ IF p.raised
                THEN /\ outcome' = Raised("train", "ValueError: 0 samples", df)
                     /\ UNCHANGED <<trained, lstm>>
                ELSE IF Len(p.X) = 0
                THEN /\ outcome' = Raised("train", "IndexError: tuple index out of range", df)
                     /\ UNCHANGED <<trained, lstm>>
                ELSE IF split_idx = 0 \/ net.n_in # NCols
                THEN /\ outcome' = Raised("train", "ValueError: network fit", df)
                     /\ lstm' = [lstm EXCEPT !.n_features = NCols, !.model = Some(net)]
                     /\ UNCHANGED trained
                ELSE /\ outcome' = [NoOutcome EXCEPT !.op = "train",
                                                     !.n_usable = Len(UsableRows(df))]
                     /\ lstm' = [lstm EXCEPT !.n_features = NCols,
                                    !.model = Some([net EXCEPT !.fitted = TRUE, !.bias = b])]
                     /\ trained' = TRUE

\* predict_lstm: None when it returns None or raises (predict catches it)
predict_lstm(p, l, hours_ahead) ==
    IF p.raised \/ Len(p.X) = 0 THEN None
    ELSE LET predictions == predict_sequence(l, p.X[Len(p.X)], hours_ahead, None)
         IN  IF predictions = None THEN None
             ELSE Some([k \in 1..hours_ahead |-> inverse_scale(p.scaler[1], predictions[1][k])])

\* The body of predict after the trained check.  The trend model's predict
\* raises when it is not fitted; fault says that it raises for a reason of
\* its own (predict catches every Exception).
PredictBody(op, df, hours_ahead, fault) ==
    LET p == prepare_lstm_data(df, feature_scaler)
        lstm_pred == predict_lstm(p, lstm, hours_ahead)
        forecast == IF prophet.fitted /\ ~fault
                    THEN Some(predict_future(prophet.model[1], hours_ahead))
                    ELSE None
        prophet_pred == IF forecast = None THEN None ELSE Some(predict_prophet(forecast[1]))
        results == Combine(lstm_pred, prophet_pred, hours_ahead)
        failed == results = <<>>
    IN  [op |-> op,
         status |-> IF failed THEN "error" ELSE "ok",
         error |-> IF failed THEN "ValueError: Both models failed to predict!" ELSE "",
         n_usable |-> Len(UsableRows(df)), hours |-> hours_ahead,
         lstm_pred |-> lstm_pred, prophet_pred |-> prophet_pred,
         prophet_forecast |-> forecast, results |-> results,
         scaler |-> p.scaler, feature_scaler |-> p.feature_scaler]

Returned(r) ==
    [op |-> r.op, status |-> r.status, error |-> r.error, value |-> "", n_usable |-> r.n_usable,
     hours |-> r.hours, lstm_pred |-> r.lstm_pred, prophet_pred |-> r.prophet_pred,
     prophet_forecast |-> r.prophet_forecast, results |-> r.results]

\* EnsemblePredictor.predict
Predict(df, hours_ahead, fault) ==
    IF ~trained
    THEN /\ outcome' = Raised("predict", "ValueError: Models not trained yet!", df)
         /\ UNCHANGED <<trained, lstm, prophet, scaler, feature_scaler, saved>>
    ELSE LET r == PredictBody("predict", df, hours_ahead, fault)
         IN  /\ outcome' = Returned(r)
             /\ scaler' = r.scaler
             /\ feature_scaler' = r.feature_scaler
             /\ UNCHANGED <<trained, lstm, prophet, saved>>

\* EnsemblePredictor.predict_with_confidence
PredictWithConfidence(df, hours_ahead, fault) ==
    IF ~trained
    THEN /\ outcome' = Raised("predict_with_confidence", "ValueError: Models not trained yet!", df)
         /\ UNCHANGED <<trained, lstm, prophet, scaler, feature_scaler, saved>>
    ELSE LET r == PredictBody("predict_with_confidence", df, hours_ahead, fault)
         IN  /\ outcome' = [Returned(r) EXCEPT !.results = WithConfidence(r.results)]
             /\ scaler' = r.scaler
             /\ feature_scaler' = r.feature_scaler
             /\ UNCHANGED <<trained, lstm, prophet, saved>>

\* EnsemblePredictor.save_models: LSTMForecaster.save_model
SaveModels ==
    IF lstm.model = None
    THEN /\ outcome' = [NoOutcome EXCEPT !.op = "save_models", !.status = "error",
                                         !.error = "ValueError: No model to save!"]
         /\ UNCHANGED <<trained, lstm, prophet, scaler, feature_scaler, saved>>
    ELSE /\ saved' = lstm.model
         /\ outcome' = [NoOutcome EXCEPT !.op = "save_models"]
         /\ UNCHANGED <<trained, lstm, prophet, scaler, feature_scaler>>

\* mutant: a load that finds no file clears the network
LoadModels_MissClears ==
    IF saved # None
    THEN /\ lstm' = [lstm EXCEPT !.model = saved]
         /\ trained' = TRUE
         /\ outcome' = [NoOutcome EXCEPT !.op = "load_models", !.value = "True"]
         /\ UNCHANGED <<prophet, scaler, feature_scaler, saved>>
    ELSE /\ lstm' = [lstm EXCEPT !.model = None]
         /\ outcome' = [NoOutcome EXCEPT !.op = "load_models", !.value = "False"]
         /\ UNCHANGED <<trained, prophet, scaler, feature_scaler, saved>>

\* mutant: a successful load does not mark the instance trained
LoadModels_NoFlag ==
    IF saved # None
    THEN /\ lstm' = [lstm EXCEPT !.model = saved]
         /\ outcome' = [NoOutcome EXCEPT !.op = "load_models", !.value = "True"]
         /\ UNCHANGED <<trained, prophet, scaler, feature_scaler, saved>>
    ELSE /\ outcome' = [NoOutcome EXCEPT !.op = "load_models", !.value = "False"]
         /\ UNCHANGED <<trained, lstm, prophet, scaler, feature_scaler, saved>>

\* EnsemblePredictor.load_models: LSTMForecaster.load_model
LoadModels ==
    IF saved # None
    THEN /\ lstm' = [lstm EXCEPT !.model = saved]
         /\ trained' = TRUE
         /\ outcome' = [NoOutcome EXCEPT !.op = "load_models", !.value = "True"]
         /\ UNCHANGED <<prophet, scaler, feature_scaler, saved>>
    ELSE /\ outcome' = [NoOutcome EXCEPT !.op = "load_models", !.value = "False"]
         /\ UNCHANGED <<trained, lstm, prophet, scaler, feature_scaler, saved>>

\* the calls of the full variant, one at a time
FullNext ==
    /\ variant = "full"
    /\ UNCHANGED <<variant, lite, lite_saved, calls, roll, app, prep, det>>
    /\ \/ \E df \in Tables : Train(df)
       \/ \E df \in Tables, h \in Hours, fault \in BOOLEAN : Predict(df, h, fault)
       \/ \E df \in Tables, h \in Hours, fault \in BOOLEAN :
              PredictWithConfidence(df, h, fault)
       \/ SaveModels
       \/ LoadModels

\* ---- models/ensemble_predictor_simple.py: the light variant ----
\* Row i of a table is stamped i-1 hours after a Monday midnight.  A mean is
\* held as the fraction [num, den]; a standard deviation by its square.
HourOf(ts) == ts % 24
DayOfWeek(ts) == (ts \div 24) % 7

RECURSIVE SumOver(_, _)
SumOver(y, idx) ==
    IF idx = {} THEN 0
    ELSE LET i == CHOOSE j \in idx : TRUE IN y[i] + SumOver(y, idx \ {i})

\* df.groupby(key)[target].mean().to_dict()
\* (key[i] is the group of row i)
GroupMeans(y, key) ==
    LET keys == {key[i] : i \in DOMAIN y}
    IN  [k \in keys |->
            LET idx == {i \in DOMAIN y : key[i] = k}
            IN  [num |-> SumOver(y, idx), den |-> Cardinality(idx)]]

\* the fields train sets
LiteFit(df) ==
    LET y == df.energy_demand
        n == Len(y)
        s == SumOver(y, DOMAIN y)
        ss == SumOver([i \in DOMAIN y |-> y[i] * y[i]], DOMAIN y)
    IN  [trained |-> TRUE,
         historical_mean |-> Some([num |-> s, den |-> n]),
         historical_std |-> Some([sq_num |-> n * ss - s * s, sq_den |-> n * (n - 1)]),
         hourly_patterns |-> Some(GroupMeans(y, [i \in DOMAIN y |-> HourOf(i - 1)])),
         daily_patterns |-> Some(GroupMeans(y, [i \in DOMAIN y |-> DayOfWeek(i - 1)]))]

\* dict.get(key, default)
Get(table, key, default) == IF key \in DOMAIN table THEN table[key] ELSE default

\* The rows predict builds from the fitted fields m.  A row's point estimate
\* is base * (daily / mean) + jitter, jitter drawn from normal(0, 0.05 * std);
\* its bounds are the point estimate -/+ 0.3 * std.
LiteRows(m, df, hours_ahead, jitter) ==
    LET last == Len(df.energy_demand) - 1
        mean == m.historical_mean[1]
    IN  [k \in 1..hours_ahead |->
            [hour |-> HourOf(last + k),
             day_of_week |-> DayOfWeek(last + k),
             base |-> Get(m.hourly_patterns[1], HourOf(last + k), mean),
             daily |-> Get(m.daily_patterns[1], DayOfWeek(last + k), mean),
             mean |-> mean,
             jitter |-> IF m.historical_std[1].sq_num = 0 THEN 0 ELSE jitter,
             std |-> m.historical_std[1]]]

\* mutant: the decay is counted from the first hour after the history
LiteConfidence_FromOne(i, hours_ahead) ==
    [low |-> 60, high |-> IF 20000 * (i + 1) > 3483 * hours_ahead THEN 60 ELSE 85,
     exponent |-> [num |-> 2 * (i + 1), den |-> hours_ahead]]

\* base_confidence * exp(-i / (hours_ahead * 0.5)), clipped to [60, 95]: the
\* value is 85 * exp(-exponent), held by the exponent 2i/h and the bracket
\* [low, high] it lies in: 85 at i = 0, 60 once the decay is below 60/85
\* (2i/h > ln(85/60) = 0.3483...), strictly in between otherwise.
LiteConfidence(i, hours_ahead) ==
    [low |-> IF i = 0 THEN 85 ELSE 60,
     high |-> IF 20000 * i > 3483 * hours_ahead THEN 60 ELSE 85,
     exponent |-> [num |-> 2 * i, den |-> hours_ahead]]

Jitters == {-1, 1}

\* the tables given to the light variant: the shortest and the longest
LiteTables == {df \in Tables : Len(df.energy_demand) \in {MaxLag + 1, MaxRows}}

LiteOutcome(op, df, hours_ahead, rows) ==
    [NoOutcome EXCEPT !.op = op, !.n_usable = Len(UsableRows(df)),
                      !.hours = hours_ahead, !.results = rows]

\* EnsemblePredictor.train (light)
LiteTrain(df) ==
    /\ lite' = LiteFit(df)
    /\ outcome' = LiteOutcome("train", df, 0, <<>>)
    /\ UNCHANGED lite_saved

\* mutant: an untrained instance forecasts from tables built on the side and
\* keeps its own tables empty
LitePredict_TablesNotKept(df, hours_ahead, jitter) ==
    LET m == IF lite.trained THEN lite ELSE LiteFit(df)
    IN  /\ outcome' = LiteOutcome("predict", df, hours_ahead,
                                  LiteRows(m, df, hours_ahead, jitter))
        /\ UNCHANGED <<lite, lite_saved>>

\* EnsemblePredictor.predict (light): an untrained instance trains itself
\* on the table it is given
LitePredict(df, hours_ahead, jitter) ==
    LET m == IF lite.trained THEN lite ELSE LiteFit(df)
    IN  /\ lite' = m
        /\ outcome' = LiteOutcome("predict", df, hours_ahead,
                                  LiteRows(m, df, hours_ahead, jitter))
        /\ UNCHANGED lite_saved

\* EnsemblePredictor.predict_with_confidence (light)
LitePredictWithConfidence(df, hours_ahead, jitter) ==
    LET m == IF lite.trained THEN lite ELSE LiteFit(df)
        rows == LiteRows(m, df, hours_ahead, jitter)
    IN  /\ lite' = m
        /\ outcome' = LiteOutcome("predict_with_confidence", df, hours_ahead,
                [k \in 1..hours_ahead |->
                    [row |-> rows[k], confidence |-> LiteConfidence(k - 1, hours_ahead)]])
        /\ UNCHANGED lite_saved

\* EnsemblePredictor.save_models (light): the five fields, trained or not
LiteSaveModels ==
    /\ lite_saved' = Some(lite)
    /\ outcome' = [NoOutcome EXCEPT !.op = "save_models"]
    /\ UNCHANGED lite

\* EnsemblePredictor.load_models (light)
LiteLoadModels ==
    IF lite_saved # None
    THEN /\ lite' = lite_saved[1]
         /\ outcome' = [NoOutcome EXCEPT !.op = "load_models", !.value = "True"]
         /\ UNCHANGED lite_saved
    ELSE /\ outcome' = [NoOutcome EXCEPT !.op = "load_models", !.value = "False"]
         /\ UNCHANGED <<lite, lite_saved>>

\* the calls of the light variant, one at a time
LiteNext ==
    /\ variant = "light"
    /\ UNCHANGED <<trained, lstm, prophet, scaler, feature_scaler, saved, variant, calls, roll, app, prep, det>>
    /\ \/ \E df \in LiteTables : LiteTrain(df)
       \/ \E df \in LiteTables, h \in Hours, j \in Jitters : LitePredict(df, h, j)
       \/ \E df \in LiteTables, h \in Hours, j \in Jitters :
              LitePredictWithConfidence(df, h, j)
       \/ LiteSaveModels
       \/ LiteLoadModels

Next ==
    \/ FullNext
    \/ LiteNext

Spec == Init /\ [][Next]_vars

\* ---- the light variant's forecasts over longer horizons ----
MaxHorizon == 12     \* hours_ahead of a predict_with_confidence call

Horizons == 1..MaxHorizon

HorizonNext ==
    /\ UNCHANGED <<trained, lstm, prophet, scaler, feature_scaler, saved, variant,
                   calls, roll, app, prep, det>>
    /\ \/ \E df \in LiteTables : LiteTrain(df)
       \/ \E df \in LiteTables, h \in Horizons, j \in Jitters :
              LitePredictWithConfidence(df, h, j)

InitHorizon == Init /\ variant = "light" /\ saved = None

SpecHorizon == InitHorizon /\ [][HorizonNext]_vars

\* ---- two predict calls on one instance (app.py's global ensemble_model) ----
\* predict is split where another thread can run: after predict_lstm has
\* fitted the scalers and rolled the network out, and before inverse_scale
\* reads the target scaler.
ConcTables == {df \in Tables : Len(df.energy_demand) = MaxRows}

AllIdle == \A t \in Threads : calls[t].pc = "idle"

\* the instance is trained before any request is served
ConcTrain ==
    /\ variant = "full"
    /\ AllIdle
    /\ ~prophet.fitted
    /\ \E df \in ConcTables : Train(df)
    /\ UNCHANGED <<variant, lite, lite_saved, calls, roll, app, prep, det>>

\* predict, lines 75-76 and the call of predict_lstm
CallPredict(t, df, hours_ahead) ==
    /\ variant = "full"
    /\ calls[t].pc = "idle"
    /\ trained
    /\ calls' = [calls EXCEPT ![t] = [pc |-> "prepare", df |-> df, hours |-> hours_ahead]]
    /\ UNCHANGED <<trained, lstm, prophet, scaler, feature_scaler, saved, outcome,
                   variant, lite, lite_saved, roll, app, prep, det>>

\* predict_lstm up to predict_sequence: fits both scalers of the shared
\* preprocessor on this call's table
PrepareStep(t) ==
    /\ calls[t].pc = "prepare"
    /\ LET p == prepare_lstm_data(calls[t].df, feature_scaler)
           predictions == IF p.raised \/ Len(p.X) = 0 THEN None
                          ELSE predict_sequence(lstm, p.X[Len(p.X)], calls[t].hours, None)
       IN  /\ scaler' = p.scaler
           /\ feature_scaler' = p.feature_scaler
           /\ calls' = [calls EXCEPT ![t] =
                          [pc |-> "inverse", df |-> calls[t].df, hours |-> calls[t].hours,
                           predictions |-> predictions]]
    /\ UNCHANGED <<trained, lstm, prophet, saved, outcome, variant, lite, lite_saved, roll, app, prep, det>>

\* inverse_scale with the shared target scaler as it is now, then the trend
\* forecast and the combination
InverseStep(t) ==
    /\ calls[t].pc = "inverse"
    /\ LET h == calls[t].hours
           lstm_pred ==
               IF calls[t].predictions = None \/ scaler = None THEN None
               ELSE Some([k \in 1..h |-> inverse_scale(scaler[1], calls[t].predictions[1][k])])
           forecast == IF prophet.fitted THEN Some(predict_future(prophet.model[1], h))
                       ELSE None
           prophet_pred == IF forecast = None THEN None ELSE Some(predict_prophet(forecast[1]))
       IN  calls' = [calls EXCEPT ![t] =
                        [pc |-> "done", df |-> calls[t].df, hours |-> h,
                         results |-> Combine(lstm_pred, prophet_pred, h)]]
    /\ UNCHANGED <<trained, lstm, prophet, scaler, feature_scaler, saved, outcome,
                   variant, lite, lite_saved, roll, app, prep, det>>

NextConc ==
    \/ ConcTrain
    \/ \E t \in Threads, df \in ConcTables, h \in Hours : CallPredict(t, df, h)
    \/ \E t \in Threads : PrepareStep(t)
    \/ \E t \in Threads : InverseStep(t)

InitConc == Init /\ variant = "full" /\ saved = None

SpecConc == InitConc /\ [][NextConc]_vars

\* ---- LSTMForecaster.predict_sequence, pass by pass ----
MaxSteps == 3        \* n_steps ranges over 0..MaxSteps

\* n_features of the forecaster being rolled out
RollFeatures == NCols

\* scaled values a window cell or a covariate can hold
Cells == {0, D}

CovRows == [1..(RollFeatures - 1) -> Cells]
WindowRows == [1..RollFeatures -> Cells]
Windows == [1..SeqLen -> WindowRows]

\* a window of the given shape with every cell c
Filled(rows, cols, c) == [r \in 1..rows |-> [k \in 1..cols |-> c]]

\* windows whose shape is not (sequence_length, n_features): a row more or
\* less, a column more or less, and the same number of cells in one row
BadWindows ==
    {Filled(sh[1], sh[2], c) :
        sh \in {<<SeqLen + 1, RollFeatures>>, <<SeqLen - 1, RollFeatures>>,
                <<SeqLen, RollFeatures + 1>>, <<SeqLen, RollFeatures - 1>>,
                <<1, SeqLen * RollFeatures>>},
        c \in Cells}

\* features: absent, empty, or one row of future covariates
FeatureArgs == {None} \cup {Some(f) : f \in UNION {[1..n -> CovRows] : n \in 0..1}}

\* entry of predict_sequence: the model check, the empty list, the copy
RollStart ==
    /\ roll.pc = "idle"
    /\ \E b \in LBiases, built \in BOOLEAN, w \in Windows \cup BadWindows,
          n \in 0..MaxSteps, f \in FeatureArgs :
        LET l == [model |-> IF built THEN Some([n_in |-> RollFeatures, fitted |-> TRUE, bias |-> b])
                            ELSE None,
                  n_features |-> RollFeatures, sequence_length |-> SeqLen]
        IN  roll' = [pc |-> IF l.model = None THEN "raised" ELSE "loop",
                     forecaster |-> l, initial_sequence |-> w, current_sequence |-> w,
                     predictions |-> <<>>, i |-> 0, n_steps |-> n, features |-> f]
    /\ UNCHANGED <<trained, lstm, prophet, scaler, feature_scaler, saved, outcome,
                   variant, lite, lite_saved, calls, app, prep, det>>

\* one pass of the loop
RollStep ==
    /\ roll.pc = "loop"
    /\ roll.i < roll.n_steps
    /\ IF ~WindowFits(roll.forecaster.model[1], roll.forecaster.sequence_length,
                      roll.forecaster.n_features, roll.current_sequence)
       THEN roll' = [roll EXCEPT !.pc = "raised"]
       ELSE LET pred == ModelPredict(roll.forecaster.model[1], roll.current_sequence)
            IN  IF ~ShiftFits(roll.current_sequence, roll.i, roll.features,
                              roll.forecaster.n_features)
                THEN roll' = [roll EXCEPT !.pc = "raised", !.predictions = Append(@, pred)]
                ELSE roll' = [roll EXCEPT
                                !.predictions = Append(@, pred),
                                !.current_sequence = ShiftWindow(@, pred, roll.i, roll.features),
                                !.i = @ + 1]
    /\ UNCHANGED <<trained, lstm, prophet, scaler, feature_scaler, saved, outcome,
                   variant, lite, lite_saved, calls, app, prep, det>>

\* return np.array(predictions)
RollReturn ==
    /\ roll.pc = "loop"
    /\ roll.i >= roll.n_steps
    /\ roll' = [roll EXCEPT !.pc = "returned"]
    /\ UNCHANGED <<trained, lstm, prophet, scaler, feature_scaler, saved, outcome,
                   variant, lite, lite_saved, calls, app, prep, det>>

NextRollout ==
    \/ RollStart
    \/ RollStep
    \/ RollReturn

InitRollout == Init /\ variant = "full" /\ saved = None

SpecRollout == InitRollout /\ [][NextRollout]_vars

\* ---- LSTMForecaster, call by call (lstm_model.py and lstm_model_lite.py) ----
\* variant "full" is the keras class, "light" the sklearn class.  A model
\* object carries where it came from (built, trained, loaded); the sklearn
\* class keeps a StandardScaler beside its model, fit by train and saved and
\* loaded with it.  The file (variable saved) holds what save_model wrote.
\* outcome.results holds the predictions a call returned.
LstmOutcome(op, preds) ==
    IF preds = None
    THEN [NoOutcome EXCEPT !.op = op, !.status = "error", !.error = "raised"]
    ELSE [NoOutcome EXCEPT !.op = op, !.results = preds[1]]

LstmUnchanged ==
    UNCHANGED <<trained, prophet, scaler, feature_scaler, variant, lite, lite_saved,
                calls, roll, app, prep, det>>

\* is the StandardScaler of the sklearn class fit
ScalerFitted(l) == l.model # None /\ l.model[1].scaler_fitted

\* LSTMForecaster.build_model: a fresh model, nothing of it fit
LstmBuildModel ==
    /\ \E b \in LBiases :
        lstm' = [lstm EXCEPT !.model =
                    Some(build_model(lstm.n_features, b) @@
                         [origin |-> "built", scaler_fitted |-> ScalerFitted(lstm)])]
    /\ outcome' = [NoOutcome EXCEPT !.op = "lstm.build_model"]
    /\ UNCHANGED saved
    /\ LstmUnchanged

\* LSTMForecaster.train: builds the model if there is none, then fits; fit
\* raises on data it cannot take (data_ok = FALSE).  The sklearn class fits
\* its scaler first; there an empty X_train fails in the scaler already.
LstmTrain ==
    /\ \E b \in LBiases, data_ok \in BOOLEAN :
        LET m == IF lstm.model = None
                 THEN build_model(lstm.n_features, b) @@
                          [origin |-> "built", scaler_fitted |-> FALSE]
                 ELSE lstm.model[1]
        IN  IF data_ok
            THEN /\ lstm' = [lstm EXCEPT !.model =
                                Some([m EXCEPT !.fitted = TRUE, !.bias = b,
                                               !.origin = "trained",
                                               !.scaler_fitted = (variant = "light")])]
                 /\ outcome' = [NoOutcome EXCEPT !.op = "lstm.train"]
            ELSE /\ lstm' = [lstm EXCEPT !.model = Some(m)]
                 /\ outcome' = [NoOutcome EXCEPT !.op = "lstm.train", !.status = "error",
                                                 !.error = "raised"]
    /\ UNCHANGED saved
    /\ LstmUnchanged

\* model.predict of one window: keras answers from whatever weights the
\* network has; sklearn raises NotFittedError from an unfit scaler or model
LstmCanPredict(l) ==
    /\ l.model # None
    /\ variant = "light" => (l.model[1].scaler_fitted /\ l.model[1].fitted)

\* LSTMForecaster.predict on a batch of one window
LstmPredict ==
    /\ \E w \in Windows :
        outcome' = LstmOutcome("lstm.predict",
                       IF LstmCanPredict(lstm) /\ lstm.model[1].n_in = RollFeatures
                       THEN Some(<<ModelPredict(lstm.model[1], w)>>)
                       ELSE None)
    /\ UNCHANGED <<lstm, saved>>
    /\ LstmUnchanged

\* LSTMForecaster.predict_sequence
LstmPredictSequence ==
    /\ \E w \in Windows, n \in 0..MaxSteps :
        outcome' = LstmOutcome("lstm.predict_sequence",
                       IF lstm.model = None THEN None
                       ELSE IF n > 0 /\ ~LstmCanPredict(lstm) THEN None
                       ELSE predict_sequence(lstm, w, n, None))
    /\ UNCHANGED <<lstm, saved>>
    /\ LstmUnchanged

\* LSTMForecaster.save_model
LstmSaveModel ==
    /\ IF lstm.model = None
       THEN /\ outcome' = [NoOutcome EXCEPT !.op = "lstm.save_model", !.status = "error",
                                            !.error = "ValueError: No model to save!"]
            /\ UNCHANGED saved
       ELSE /\ outcome' = [NoOutcome EXCEPT !.op = "lstm.save_model"]
            /\ saved' = lstm.model
    /\ UNCHANGED lstm
    /\ LstmUnchanged

\* LSTMForecaster.load_model
LstmLoadModel ==
    /\ IF saved = None
       THEN /\ outcome' = [NoOutcome EXCEPT !.op = "lstm.load_model", !.value = "False"]
            /\ UNCHANGED lstm
       ELSE /\ outcome' = [NoOutcome EXCEPT !.op = "lstm.load_model", !.value = "True"]
            /\ lstm' = [lstm EXCEPT !.model = Some([saved[1] EXCEPT !.origin = "loaded"])]
    /\ UNCHANGED saved
    /\ LstmUnchanged

NextForecaster ==
    \/ LstmBuildModel
    \/ LstmTrain
    \/ LstmPredict
    \/ LstmPredictSequence
    \/ LstmSaveModel
    \/ LstmLoadModel

\* LSTMForecaster(sequence_length, n_features) made for the windows of this
\* model, of either class; no file yet
InitForecaster ==
    /\ trained = FALSE
    /\ lstm = [NewLSTM EXCEPT !.n_features = RollFeatures]
    /\ prophet = NewProphet
    /\ scaler = None
    /\ feature_scaler = None
    /\ saved = None
    /\ outcome = NoOutcome
    /\ variant \in {"full", "light"}
    /\ lite = NewLite
    /\ lite_saved = None
    /\ calls = NoCalls
    /\ roll = NoRoll
    /\ app = NoApp
    /\ prep = NoPrep
    /\ det = NoDet

SpecForecaster == InitForecaster /\ [][NextForecaster]_vars

\* ---- app.py / app_lite.py: initialize_system and the process around it ----
\* The files under saved_models/ and the historical data file outlive the
\* process; the EnsemblePredictor instance and the columns added to the
\* table in memory do not.  app.origin remembers, for the
\* instance that wrote the model files, its forecast on the historical data.
\* the table after the light variant's train: df['hour'] = ... and
\* df['day_of_week'] = ... assign two columns on the caller's frame
LiteTrainFrame(df) ==
    [hour |-> [i \in DOMAIN df.energy_demand |-> HourOf(i - 1)],
     day_of_week |-> [i \in DOMAIN df.energy_demand |-> DayOfWeek(i - 1)]] @@ df

\* the table after the full variant's train or predict: the preprocessor
\* works on df.copy() and prepare_prophet_data builds a frame of its own
FullFrame(df) == df

BootTables == {df \in Tables : Len(df.energy_demand) \in {MaxLag + 1, MaxRows}}

FullUnchanged == UNCHANGED <<trained, lstm, prophet, scaler, feature_scaler, saved>>
LiteUnchanged == UNCHANGED <<lite, lite_saved>>

\* what the current instance forecasts for the historical data (the light
\* variant with the same random draw)
ForecastNow ==
    IF variant = "full"
    THEN PredictBody("predict", app.data[1], MaxHours, FALSE).results
    ELSE LiteRows(lite, app.data[1], MaxHours, 1)

\* initialize_system up to the try: the data, a new EnsemblePredictor
Boot ==
    /\ app.pc = "down"
    /\ \E df \in BootTables :
        /\ app.data # None => df.energy_demand = app.data[1].energy_demand
        /\ app' = [app EXCEPT !.pc = "load", !.data = Some(df), !.loaded = FALSE]
    /\ trained' = FALSE
    /\ lstm' = NewLSTM
    /\ prophet' = NewProphet
    /\ scaler' = None
    /\ feature_scaler' = None
    /\ lite' = NewLite
    /\ outcome' = NoOutcome
    /\ UNCHANGED <<saved, lite_saved, variant, calls, roll, prep, det>>

\* if ensemble_model.load_models(): ... else: raise FileNotFoundError
BootLoad ==
    /\ app.pc = "load"
    /\ IF variant = "full" THEN LoadModels /\ LiteUnchanged
                           ELSE LiteLoadModels /\ FullUnchanged
    /\ app' = [app EXCEPT !.pc = IF outcome'.value = "True" THEN "up" ELSE "train",
                          !.loaded = outcome'.value = "True"]
    /\ UNCHANGED <<variant, calls, roll, prep, det>>

\* except: ensemble_model.train(historical_data); an exception of train
\* leaves initialize_system
BootTrain ==
    /\ app.pc = "train"
    /\ IF variant = "full" THEN Train(app.data[1]) /\ LiteUnchanged
                           ELSE LiteTrain(app.data[1]) /\ FullUnchanged
    /\ app' = [app EXCEPT !.pc = IF outcome'.status = "error" THEN "crashed" ELSE "save",
                          !.data = Some(IF variant = "full" THEN FullFrame(@[1])
                                        ELSE LiteTrainFrame(@[1]))]
    /\ UNCHANGED <<variant, calls, roll, prep, det>>

\* ensemble_model.save_models(), the last statement of the except block
BootSave ==
    /\ app.pc = "save"
    /\ IF variant = "full" THEN SaveModels /\ LiteUnchanged
                           ELSE LiteSaveModels /\ FullUnchanged
    /\ app' = [app EXCEPT !.pc = IF outcome'.status = "error" THEN "crashed" ELSE "up",
                          !.origin = IF outcome'.status = "error" THEN @ ELSE Some(ForecastNow)]
    /\ UNCHANGED <<variant, calls, roll, prep, det>>

\* a forecast request served by the initialized process
BootServe ==
    /\ app.pc = "up"
    /\ IF variant = "full"
       THEN (\E fault \in BOOLEAN : Predict(app.data[1], MaxHours, fault)) /\ LiteUnchanged
       ELSE (\E j \in Jitters : LitePredict(app.data[1], MaxHours, j)) /\ FullUnchanged
    /\ app' = [app EXCEPT !.data = IF variant = "full" \/ lite.trained THEN @
                                   ELSE Some(LiteTrainFrame(@[1]))]
    /\ UNCHANGED <<variant, calls, roll, prep, det>>

\* the process ends; files and data stay
Shutdown ==
    /\ app.pc \in {"up", "crashed"}
    /\ app' = [app EXCEPT !.pc = "down", !.loaded = FALSE]
    /\ UNCHANGED <<trained, lstm, prophet, scaler, feature_scaler, saved, outcome,
                   variant, lite, lite_saved, calls, roll, prep, det>>

NextBoot ==
    \/ Boot
    \/ BootLoad
    \/ BootTrain
    \/ BootSave
    \/ BootServe
    \/ Shutdown

InitBoot == Init /\ saved = None

SpecBoot == InitBoot /\ [][NextBoot]_vars

\* ---- the caller's table across train and predict ----
\* app.data is the table the caller holds (historical_data in app.py and
\* app_lite.py) and passes, by reference, to train and predict.
CallerTables == {df \in Tables : Len(df.energy_demand) \in {MaxLag + 1, MaxRows}}

\* the caller reads or generates its table
CallerData ==
    /\ app.pc = "down"
    /\ \E df \in CallerTables : app' = [NoApp EXCEPT !.pc = "up", !.data = Some(df)]
    /\ UNCHANGED <<trained, lstm, prophet, scaler, feature_scaler, saved, outcome,
                   variant, lite, lite_saved, calls, roll, prep, det>>

\* ensemble_model.train(historical_data)
CallerTrain ==
    /\ app.pc = "up"
    /\ IF variant = "full"
       THEN /\ Train(app.data[1]) /\ LiteUnchanged
            /\ app' = [app EXCEPT !.data = Some(FullFrame(app.data[1]))]
       ELSE /\ LiteTrain(app.data[1]) /\ FullUnchanged
            /\ app' = [app EXCEPT !.data = Some(LiteTrainFrame(app.data[1]))]
    /\ UNCHANGED <<variant, calls, roll, prep, det>>

\* ensemble_model.predict(historical_data, hours_ahead); the light variant
\* calls train on the table when the instance is not trained
CallerPredict ==
    /\ app.pc = "up"
    /\ IF variant = "full"
       THEN /\ (\E fault \in BOOLEAN : Predict(app.data[1], MaxHours, fault)) /\ LiteUnchanged
            /\ app' = [app EXCEPT !.data = Some(FullFrame(app.data[1]))]
       ELSE /\ (\E j \in Jitters : LitePredict(app.data[1], MaxHours, j)) /\ FullUnchanged
            /\ app' = [app EXCEPT !.data =
                          IF lite.trained THEN @ ELSE Some(LiteTrainFrame(app.data[1]))]
    /\ UNCHANGED <<variant, calls, roll, prep, det>>

\* the caller lets go of the table and of the predictor
CallerDone ==
    /\ app.pc = "up"
    /\ app' = NoApp
    /\ trained' = FALSE
    /\ lstm' = NewLSTM
    /\ prophet' = NewProphet
    /\ scaler' = None
    /\ feature_scaler' = None
    /\ lite' = NewLite
    /\ outcome' = NoOutcome
    /\ UNCHANGED <<saved, lite_saved, variant, calls, roll, prep, det>>

NextCaller ==
    \/ CallerData
    \/ CallerTrain
    \/ CallerPredict
    \/ CallerDone

InitCaller == Init /\ saved = None

SpecCaller == InitCaller /\ [][NextCaller]_vars

\* ---- DataPreprocessor, call by call ----
RawCells == {None, Some(0), Some(ValMax)}

\* target columns of 1..MaxRawLen rows, any of them missing
RawColumns == UNION {[1..n -> RawCells] : n \in 1..MaxRawLen}

\* tables without missing values, the one with no usable row included
PrepTables == Tables \cup {Table(MaxLag, q[1], q[2]) : q \in SamplePairs}

\* create_lag_features on a target column
PrepLag ==
    /\ prep.pc = "idle"
    /\ \E y \in RawColumns :
        prep' = [pc |-> "lagged", raw |-> y, frame |-> create_lag_features(y, Lags)]
    /\ UNCHANGED <<trained, lstm, prophet, scaler, feature_scaler, saved, outcome,
                   variant, lite, lite_saved, calls, roll, app, det>>

\* handle_missing_values on the frame with its lag columns
PrepClean ==
    /\ prep.pc = "lagged"
    /\ prep' = [pc |-> "cleaned", raw |-> prep.raw, frame |-> prep.frame,
                clean |-> handle_missing_values(prep.frame)]
    /\ UNCHANGED <<trained, lstm, prophet, scaler, feature_scaler, saved, outcome,
                   variant, lite, lite_saved, calls, roll, app, det>>

\* prepare_lstm_data on a table
PrepWindow ==
    /\ prep.pc = "idle"
    /\ \E df \in PrepTables :
        prep' = [pc |-> "windowed", df |-> df, out |-> prepare_lstm_data(df, None)]
    /\ UNCHANGED <<trained, lstm, prophet, scaler, feature_scaler, saved, outcome,
                   variant, lite, lite_saved, calls, roll, app, det>>

\* the caller drops the result
PrepDone ==
    /\ prep.pc \in {"cleaned", "windowed"}
    /\ prep' = NoPrep
    /\ UNCHANGED <<trained, lstm, prophet, scaler, feature_scaler, saved, outcome,
                   variant, lite, lite_saved, calls, roll, app, det>>

NextPrep ==
    \/ PrepLag
    \/ PrepClean
    \/ PrepWindow
    \/ PrepDone

InitPrep == Init /\ variant = "full" /\ saved = None

SpecPrep == InitPrep /\ [][NextPrep]_vars

\* ---- utils/anomaly_detector.py: AnomalyDetector ----
\* data is a sequence of demand values (none negative, none missing); an
\* index is reported as the source reports it, counted from 0.  A threshold
\* is the fraction n/d.
DetLen == 5          \* samples of a series
DetMax == 3          \* a sample is one of 0..DetMax

DetSeries == UNION {[1..n -> 0..DetMax] : n \in {2, DetLen}}

\* window sizes with the centre in the middle and left of the middle
DetWindows == {3, 4}

\* z-score thresholds a window of these sizes can exceed
Thresholds == {[n |-> 1, d |-> 2], [n |-> 1, d |-> 1]}

\* change_threshold of detect_sudden_changes, 0.3 by default
ChangeThresholds == {[n |-> 3, d |-> 10]}

\* the entries i for which Test(i) holds, in ascending order
Where(flags, i, n) ==
    SelectSeq([k \in 1..(n - i + 1) |-> k + i - 1], LAMBDA k : flags[k])

\* rolling(window, center=True): the positions (from 1) the window of
\* entry i covers, or {} where the window does not fit into the series
CenteredWindow(i, window, n) ==
    LET off == (window - 1) \div 2
        lo == i - (window - 1 - off)
        hi == i + off
    IN  IF lo >= 1 /\ hi <= n THEN lo..hi ELSE {}

\* rolling(...).mean(): None where undefined, else the fraction num/den
rolling_mean(data, window) ==
    [i \in 1..Len(data) |->
        LET ws == CenteredWindow(i, window, Len(data))
        IN  IF ws = {} THEN None
            ELSE Some([num |-> SumOver(data, ws), den |-> window])]

\* rolling(...).std() (ddof = 1), held by its square: None where
\* undefined, else the variance num/den
rolling_std(data, window) ==
    [i \in 1..Len(data) |->
        LET ws == CenteredWindow(i, window, Len(data))
            sum == SumOver(data, ws)
            sq == SumOver([k \in 1..Len(data) |-> data[k] * data[k]], ws)
        IN  IF ws = {} \/ window < 2 THEN None
            ELSE Some([num |-> window * sq - sum * sum, den |-> window * (window - 1)])]

\* z_scores[i] > factor * threshold, factor = fn/fd; a NaN z-score (no
\* window, or 0/0 on a constant window) is greater than nothing.  The
\* squared deviation and the variance are reduced by their common divisor
\* before they are compared.
ZAbove(data, i, mean, std, threshold, fn, fd) ==
    /\ mean[i] # None /\ std[i] # None
    /\ std[i][1].num > 0
    /\ LET m == mean[i][1]
           v == std[i][1]
           dev == data[i] * m.den - m.num
           g == Gcd(dev * dev, v.num)
       IN  ((dev * dev) \div g) * v.den * threshold.d * threshold.d * fd * fd >
               threshold.n * threshold.n * fn * fn * m.den * m.den * (v.num \div g)

\* mutant: the rolling window trails the entry instead of centring on it
detect_zscore_anomalies_Trailing(data, window, threshold) ==
    LET n == Len(data)
        shifted == [i \in 1..n |-> IF i - window + 1 >= 1 THEN (i - window + 1)..i ELSE {}]
        mean == [i \in 1..n |-> IF shifted[i] = {} THEN None
                    ELSE Some([num |-> SumOver(data, shifted[i]), den |-> window])]
        std == [i \in 1..n |-> IF shifted[i] = {} THEN None
                    ELSE Some([num |-> window * SumOver([k \in 1..n |-> data[k] * data[k]],
                                                        shifted[i])
                                          - SumOver(data, shifted[i]) * SumOver(data, shifted[i]),
                               den |-> window * (window - 1)])]
        idx == Where([i \in 1..n |-> ZAbove(data, i, mean, std, threshold, 1, 1)], 1, n)
    IN  [j \in 1..Len(idx) |->
            [index |-> idx[j] - 1, value |-> data[idx[j]],
             severity |-> IF ZAbove(data, idx[j], mean, std, threshold, 3, 2)
                          THEN "high" ELSE "medium"]]

\* AnomalyDetector.detect_zscore_anomalies
detect_zscore_anomalies(data, window, threshold) ==
    LET n == Len(data)
        mean == rolling_mean(data, window)
        std == rolling_std(data, window)
        idx == Where([i \in 1..n |-> ZAbove(data, i, mean, std, threshold, 1, 1)], 1, n)
    IN  [j \in 1..Len(idx) |->
            [index |-> idx[j] - 1, value |-> data[idx[j]],
             severity |-> IF ZAbove(data, idx[j], mean, std, threshold, 3, 2)
                          THEN "high" ELSE "medium"]]

\* np.percentile(data, 25 * quarter), linear interpolation between the two
\* nearest ranks, in quarters of a unit
Percentile4(data, quarter) ==
    LET sorted == SortSeq(data, LAMBDA a, b : a < b)
        h == (Len(data) - 1) * quarter
        lo == h \div 4
        r == h % 4
    IN  IF r = 0 THEN 4 * sorted[lo + 1]
        ELSE 4 * sorted[lo + 1] + r * (sorted[lo + 2] - sorted[lo + 1])

\* mutant: no extended band, every value outside the bounds is severe
detect_iqr_anomalies_NoExtendedBand(data) ==
    LET iqr == Percentile4(data, 3) - Percentile4(data, 1)
        lower_bound == 2 * Percentile4(data, 1) - 3 * iqr
        upper_bound == 2 * Percentile4(data, 3) + 3 * iqr
        idx == Where([i \in 1..Len(data) |->
                        8 * data[i] < lower_bound \/ 8 * data[i] > upper_bound], 1, Len(data))
    IN  [j \in 1..Len(idx) |->
            LET value == 8 * data[idx[j]]
            IN  [index |-> idx[j] - 1, value |-> data[idx[j]],
                 severity |-> IF value < lower_bound \/ value > upper_bound
                              THEN "high" ELSE "medium"]]

\* AnomalyDetector.detect_iqr_anomalies; bounds in eighths of a unit
detect_iqr_anomalies(data) ==
    LET iqr == Percentile4(data, 3) - Percentile4(data, 1)
        lower_bound == 2 * Percentile4(data, 1) - 3 * iqr
        upper_bound == 2 * Percentile4(data, 3) + 3 * iqr
        idx == Where([i \in 1..Len(data) |->
                        8 * data[i] < lower_bound \/ 8 * data[i] > upper_bound], 1, Len(data))
    IN  [j \in 1..Len(idx) |->
            LET value == 8 * data[idx[j]]
            IN  [index |-> idx[j] - 1, value |-> data[idx[j]],
                 severity |-> IF value < lower_bound - 2 * iqr \/ value > upper_bound + 2 * iqr
                              THEN "high" ELSE "medium"]]

\* mutant: the change is taken from the new sample back to the old one
pct_change_Backward(data) ==
    [i \in 1..Len(data) |->
        IF i = 1 THEN [kind |-> "nan"]
        ELSE IF data[i] = 0
        THEN [kind |-> IF data[i - 1] = 0 THEN "nan" ELSE "inf"]
        ELSE [kind |-> "num", num |-> data[i - 1] - data[i], den |-> data[i]]]

\* pct_change()[i] = data[i] / data[i-1] - 1 as the fraction num/den, or
\* "nan" (first entry, 0/0), "inf", "-inf" (division of a non-zero by zero)
pct_change(data) ==
    [i \in 1..Len(data) |->
        IF i = 1 THEN [kind |-> "nan"]
        ELSE IF data[i - 1] = 0
        THEN [kind |-> IF data[i] = 0 THEN "nan" ELSE IF data[i] > 0 THEN "inf" ELSE "-inf"]
        ELSE [kind |-> "num", num |-> data[i] - data[i - 1], den |-> data[i - 1]]]

\* np.abs(pct) > factor * threshold
PctAbove(pct, threshold, factor) ==
    CASE pct.kind = "nan" -> FALSE
      [] pct.kind \in {"inf", "-inf"} -> TRUE
      [] OTHER -> Abs(pct.num) * threshold.d > factor * threshold.n * Abs(pct.den)

\* pct > 0
PctPositive(pct) ==
    CASE pct.kind = "inf" -> TRUE
      [] pct.kind = "num" -> (pct.num > 0) = (pct.den > 0) /\ pct.num # 0
      [] OTHER -> FALSE

\* mutant: the change is measured against the new value
detect_sudden_changes_OverNew(data, change_threshold) ==
    LET n == Len(data)
        pct == [i \in 1..n |->
                   IF i = 1 THEN [kind |-> "nan"]
                   ELSE IF data[i] = 0
                   THEN [kind |-> IF data[i - 1] = 0 THEN "nan" ELSE "-inf"]
                   ELSE [kind |-> "num", num |-> data[i] - data[i - 1], den |-> data[i]]]
        idx == Where([i \in 1..n |-> PctAbove(pct[i], change_threshold, 1)], 1, n)
        kept == SelectSeq(idx, LAMBDA i : i > 1 /\ pct[i].kind # "nan")
    IN  [j \in 1..Len(kept) |->
            [index |-> kept[j] - 1,
             from_value |-> data[kept[j] - 1], to_value |-> data[kept[j]],
             type |-> IF PctPositive(pct[kept[j]]) THEN "spike" ELSE "drop",
             severity |-> IF PctAbove(pct[kept[j]], change_threshold, 2)
                          THEN "high" ELSE "medium"]]

\* AnomalyDetector.detect_sudden_changes
detect_sudden_changes(data, change_threshold) ==
    LET n == Len(data)
        pct == pct_change(data)
        idx == Where([i \in 1..n |-> PctAbove(pct[i], change_threshold, 1)], 1, n)
        kept == SelectSeq(idx, LAMBDA i : i > 1 /\ pct[i].kind # "nan")
    IN  [j \in 1..Len(kept) |->
            [index |-> kept[j] - 1,
             from_value |-> data[kept[j] - 1], to_value |-> data[kept[j]],
             type |-> IF PctPositive(pct[kept[j]]) THEN "spike" ELSE "drop",
             severity |-> IF PctAbove(pct[kept[j]], change_threshold, 2)
                          THEN "high" ELSE "medium"]]

DetUnchanged ==
    UNCHANGED <<trained, lstm, prophet, scaler, feature_scaler, saved, outcome,
                variant, lite, lite_saved, calls, roll, app, prep>>

DetectZscore ==
    /\ det.op = "none"
    /\ \E data \in DetSeries, window \in DetWindows, threshold \in Thresholds :
        det' = [op |-> "detect_zscore_anomalies", data |-> data, window |-> window,
                threshold |-> threshold,
                anomalies |-> detect_zscore_anomalies(data, window, threshold)]
    /\ DetUnchanged

DetectIqr ==
    /\ det.op = "none"
    /\ \E data \in DetSeries :
        det' = [op |-> "detect_iqr_anomalies", data |-> data,
                anomalies |-> detect_iqr_anomalies(data)]
    /\ DetUnchanged

DetectSuddenChanges ==
    /\ det.op = "none"
    /\ \E data \in DetSeries, threshold \in ChangeThresholds :
        det' = [op |-> "detect_sudden_changes", data |-> data, threshold |-> threshold,
                anomalies |-> detect_sudden_changes(data, threshold)]
    /\ DetUnchanged

\* the caller has taken the list; the detector keeps nothing between calls
DetectReturn ==
    /\ det.op # "none"
    /\ det' = NoDet
    /\ DetUnchanged

NextDetect ==
    \/ DetectZscore
    \/ DetectIqr
    \/ DetectSuddenChanges
    \/ DetectReturn

InitDetect == Init /\ variant = "full" /\ saved = None

SpecDetect == InitDetect /\ [][NextDetect]_vars

\* ---- AnomalyDetector.analyze_anomalies and get_anomaly_alerts ----
\* A detector is the record self = [threshold, window] its constructor
\* sets; df is the caller's window of the history, a table with the columns
\* timestamp and energy_demand.
ANOMALY_THRESHOLD == 3
ANOMALY_WINDOW == 24
TOP_ZSCORE == 5
TOP_CHANGES == 3

AlertLen == 9        \* rows of a window long enough to overflow both lists

Frame(series) ==
    [timestamp |-> [i \in 1..Len(series) |-> i - 1], energy_demand |-> series]

\* windows of two demand levels, short and long
AlertFrames ==
    {Frame(series) : series \in UNION {[1..n -> {1, DetMax}] : n \in {DetLen, AlertLen}}}

\* 200 hours at 100 with hour 100 at 1000
ScenarioFrame == Frame([i \in 1..200 |-> IF i = 101 THEN 1000 ELSE 100])

\* AnomalyDetector(threshold): the settings an instance starts with
NewDetector(threshold) == [threshold |-> threshold, window |-> ANOMALY_WINDOW]

DefaultDetector == NewDetector([n |-> ANOMALY_THRESHOLD, d |-> 1])

\* round(100 * count / n, 2) in hundredths of a percent, ties to even
anomaly_rate(count, n) ==
    LET q == (10000 * count) \div n
        r == (10000 * count) % n
    IN  IF 2 * r > n \/ (2 * r = n /\ q % 2 = 1) THEN q + 1 ELSE q

\* mutant: the threshold adapts to what the call has found
analyze_anomalies_Adaptive(self, df) ==
    LET data == df.energy_demand
        zscore_anomalies == detect_zscore_anomalies(data, self.window, self.threshold)
        iqr_anomalies == detect_iqr_anomalies(data)
        sudden_changes == detect_sudden_changes(data, [n |-> 3, d |-> 10])
    IN  [self |-> [self EXCEPT !.threshold.n = @ + Len(zscore_anomalies)],
         df |-> df,
         result |-> [zscore_anomalies |-> zscore_anomalies,
                     iqr_anomalies |-> iqr_anomalies,
                     sudden_changes |-> sudden_changes,
                     total_anomalies |-> Len(zscore_anomalies) + Len(iqr_anomalies)
                                            + Len(sudden_changes),
                     anomaly_rate |-> anomaly_rate(Len(zscore_anomalies), Len(data))]]

\* AnomalyDetector.analyze_anomalies: what it returns, and the detector and
\* the table as the call leaves them
analyze_anomalies(self, df) ==
    LET data == df.energy_demand
        zscore_anomalies == detect_zscore_anomalies(data, self.window, self.threshold)
        iqr_anomalies == detect_iqr_anomalies(data)
        sudden_changes == detect_sudden_changes(data, [n |-> 3, d |-> 10])
    IN  [self |-> self,
         df |-> df,
         result |-> [zscore_anomalies |-> zscore_anomalies,
                     iqr_anomalies |-> iqr_anomalies,
                     sudden_changes |-> sudden_changes,
                     total_anomalies |-> Len(zscore_anomalies) + Len(iqr_anomalies)
                                            + Len(sudden_changes),
                     anomaly_rate |-> anomaly_rate(Len(zscore_anomalies), Len(data))]]

\* anomalies[:k]
Head_k(anomalies, k) ==
    SubSeq(anomalies, 1, IF Len(anomalies) < k THEN Len(anomalies) ELSE k)

ZscoreAlert(df, anom) ==
    [type |-> "statistical_anomaly", severity |-> anom.severity,
     timestamp |-> df.timestamp[anom.index + 1], value |-> anom.value]

ChangeAlert(df, change) ==
    [type |-> "sudden_change", severity |-> change.severity,
     timestamp |-> df.timestamp[change.index + 1], change |-> change.type,
     from_value |-> change.from_value, to_value |-> change.to_value]

\* mutant: the severe alerts are moved to the front
get_anomaly_alerts_SevereFirst(self, df) ==
    LET analysis == analyze_anomalies(self, df)
        z == Head_k(analysis.result.zscore_anomalies, TOP_ZSCORE)
        c == Head_k(analysis.result.sudden_changes, TOP_CHANGES)
        alerts == [j \in 1..Len(z) |-> ZscoreAlert(df, z[j])]
                      \o [j \in 1..Len(c) |-> ChangeAlert(df, c[j])]
    IN  [self |-> analysis.self, df |-> analysis.df,
         alerts |-> SelectSeq(alerts, LAMBDA a : a.severity = "high")
                        \o SelectSeq(alerts, LAMBDA a : a.severity # "high")]

\* AnomalyDetector.get_anomaly_alerts
get_anomaly_alerts(self, df) ==
    LET analysis == analyze_anomalies(self, df)
        z == Head_k(analysis.result.zscore_anomalies, TOP_ZSCORE)
        c == Head_k(analysis.result.sudden_changes, TOP_CHANGES)
    IN  [self |-> analysis.self, df |-> analysis.df,
         alerts |-> [j \in 1..Len(z) |-> ZscoreAlert(df, z[j])]
                        \o [j \in 1..Len(c) |-> ChangeAlert(df, c[j])]]

\* a detector is made and handed a window; made and given keep the
\* settings and the window as they were at that moment
MakeDetector ==
    /\ det.op = "none"
    /\ \/ \E threshold \in Thresholds, window \in DetWindows, df \in AlertFrames :
             det' = [op |-> "ready", self |-> [NewDetector(threshold) EXCEPT !.window = window],
                     made |-> [NewDetector(threshold) EXCEPT !.window = window],
                     df |-> df, given |-> df, analyses |-> <<>>, alerts |-> None]
       \/ det' = [op |-> "ready", self |-> DefaultDetector, made |-> DefaultDetector,
                  df |-> ScenarioFrame, given |-> ScenarioFrame,
                  analyses |-> <<>>, alerts |-> None]
    /\ DetUnchanged

\* analyze_anomalies on the window held, at most twice
AnalyzeAnomalies ==
    /\ det.op = "ready"
    /\ Len(det.analyses) < 2
    /\ LET call == analyze_anomalies(det.self, det.df)
       IN  det' = [det EXCEPT !.self = call.self, !.df = call.df,
                              !.analyses = Append(@, call.result)]
    /\ DetUnchanged

\* get_anomaly_alerts on the window held
GetAnomalyAlerts ==
    /\ det.op = "ready"
    /\ det.alerts = None
    /\ LET call == get_anomaly_alerts(det.self, det.df)
       IN  det' = [det EXCEPT !.self = call.self, !.df = call.df,
                              !.alerts = Some(call.alerts)]
    /\ DetUnchanged

\* the request is over
DropDetector ==
    /\ det.op = "ready"
    /\ det' = NoDet
    /\ DetUnchanged

NextAlerts ==
    \/ MakeDetector
    \/ AnalyzeAnomalies
    \/ GetAnomalyAlerts
    \/ DropDetector

InitAlerts == Init /\ variant = "full" /\ saved = None

SpecAlerts == InitAlerts /\ [][NextAlerts]_vars

\* ---- claims ----
PredictOps == {"predict", "predict_with_confidence"}

\* a predict call of the full variant that returned a forecast table
Forecasted == variant = "full" /\ outcome.op \in PredictOps /\ outcome.status = "ok"

\* C1: with both sub-forecasts present every row has predicted_demand =
\* 0.6 * lstm + 0.4 * prophet, and lower/upper bound = predicted_demand
\* -/+ 0.5 * |lstm - prophet| (columns in tenths).
C1_WeightedAverage ==
    (Forecasted /\ outcome.lstm_pred # None /\ outcome.prophet_pred # None) =>
        \A k \in 1..outcome.hours :
            LET l == outcome.lstm_pred[1][k]
                p == outcome.prophet_pred[1][k]
                r == outcome.results[k]
            IN  /\ r.predicted_demand = 6 * l + 4 * p
                /\ r.lower_bound = r.predicted_demand - 5 * (IF l < p THEN p - l ELSE l - p)
                /\ r.upper_bound = r.predicted_demand + 5 * (IF l < p THEN p - l ELSE l - p)

\* both sub-forecasts present and disagreeing
C1_Witness ==
    /\ Forecasted /\ outcome.lstm_pred # None /\ outcome.prophet_pred # None
    /\ outcome.hours = MaxHours
    /\ \E k \in 1..outcome.hours : outcome.lstm_pred[1][k] # outcome.prophet_pred[1][k]

\* C2: when exactly one forecaster fails the call still returns a forecast:
\* its point estimate is the surviving forecast and its uncertainty is
\* 0.1 * point.
C2_SingleModelFallback ==
    (variant = "full" /\ outcome.op \in PredictOps
        /\ (outcome.lstm_pred = None) # (outcome.prophet_pred = None)) =>
        /\ outcome.status = "ok"
        /\ Len(outcome.results) = outcome.hours
        /\ \A k \in 1..outcome.hours :
            LET s == IF outcome.lstm_pred # None THEN outcome.lstm_pred[1][k]
                     ELSE outcome.prophet_pred[1][k]
                r == outcome.results[k]
            IN  /\ r.predicted_demand = 10 * s
                /\ r.predicted_demand - r.lower_bound = s
                /\ r.upper_bound - r.predicted_demand = s

\* only the trend forecast survived (the sequence forecaster failed)
C2_WitnessTrendOnly ==
    /\ Forecasted /\ outcome.lstm_pred = None /\ outcome.prophet_pred # None
    /\ outcome.results[1].predicted_demand # 0

\* only the sequence forecast survived (the trend forecaster raised)
C2_WitnessSequenceOnly ==
    /\ Forecasted /\ outcome.lstm_pred # None /\ outcome.prophet_pred = None
    /\ outcome.results[1].predicted_demand # 0

\* C3: when both forecasters fail, predict raises and returns no table.
C3_BothFail ==
    (variant = "full" /\ outcome.op \in PredictOps
        /\ outcome.lstm_pred = None /\ outcome.prophet_pred = None) =>
        /\ outcome.status = "error"
        /\ outcome.results = <<>>

\* a trained instance on which both forecasters failed
C3_Witness ==
    /\ variant = "full" /\ outcome.op \in PredictOps
    /\ outcome.error = "ValueError: Both models failed to predict!"

\* only the trend forecast survived, and it carries native bounds
TrendOnly == Forecasted /\ outcome.lstm_pred = None /\ outcome.prophet_forecast # None

\* C4 as claimed: when only the trend forecast survives, the result's bounds
\* are the forecast's native yhat_lower / yhat_upper.
C4_NativeBoundsPreferred ==
    TrendOnly =>
        \A k \in 1..outcome.hours :
            /\ outcome.results[k].lower_bound = 10 * outcome.prophet_forecast[1][k].yhat_lower
            /\ outcome.results[k].upper_bound = 10 * outcome.prophet_forecast[1][k].yhat_upper

\* C4 as amended: when only the trend forecast survives, the native bounds are
\* dropped; the result's bounds are yhat -/+ 0.1 * yhat, whatever the native
\* bounds are.
C4_NativeBoundsDropped ==
    TrendOnly =>
        \A k \in 1..outcome.hours :
            LET f == outcome.prophet_forecast[1][k]
            IN  /\ outcome.results[k].predicted_demand = 10 * f.yhat
                /\ outcome.results[k].lower_bound = 10 * f.yhat - f.yhat
                /\ outcome.results[k].upper_bound = 10 * f.yhat + f.yhat

\* the trend forecast survived alone with native bounds other than the 10% band
C4_Witness ==
    /\ TrendOnly
    /\ outcome.results[1].lower_bound # 10 * outcome.prophet_forecast[1][1].yhat_lower
    /\ outcome.results[1].upper_bound # 10 * outcome.prophet_forecast[1][1].yhat_upper

\* C5: every row of predict_with_confidence has a defined confidence in
\* [0, 100], and a row whose point estimate is 0 has confidence 0.
C5_ConfidenceDefined ==
    (variant = "full" /\ outcome.op = "predict_with_confidence" /\ outcome.status = "ok") =>
        \A k \in 1..outcome.hours :
            LET r == outcome.results[k]
            IN  /\ ~r.confidence.nan
                /\ 0 <= r.confidence.num
                /\ r.confidence.num <= 100 * r.confidence.den
                /\ r.predicted_demand = 0 => r.confidence.num = 0

\* C7: a predict call leaves the fitted target scaler and feature scaler as
\* the training call left them.
C7_ScalerFitOnce ==
    [][(variant = "full" /\ trained /\ outcome'.op \in PredictOps) =>
            (scaler' = scaler /\ feature_scaler' = feature_scaler)]_vars

\* C9: with fewer usable rows than sequence_length, train and predict raise
\* before any forecaster is trained or asked to predict.
C9_InsufficientData ==
    [][(/\ variant = "full"
        /\ outcome'.n_usable < SeqLen
        /\ \/ outcome'.op = "train"
           \/ trained /\ outcome'.op \in PredictOps) =>
            (/\ outcome'.status = "error"
             /\ prophet' = prophet
             /\ lstm' = lstm
             /\ outcome'.prophet_pred = None)]_vars

\* C6: predict and predict_with_confidence on an instance that is not in the
\* trained state raise and return no forecast (both variants).
C6_NotTrainedRaises ==
    [][(/\ outcome'.op \in PredictOps
        /\ \/ variant = "full" /\ ~trained
           \/ variant = "light" /\ ~lite.trained) =>
            (outcome'.status = "error" /\ outcome'.results = <<>>)]_vars

\* what a predict call returns when it runs alone on the instance
Alone(df, hours_ahead) == PredictBody("predict", df, hours_ahead, FALSE).results

\* C8: a predict call that ran concurrently with another returns exactly what
\* it returns when run alone on its own table.
C8_NoInterference ==
    \A t \in Threads :
        calls[t].pc = "done" => calls[t].results = Alone(calls[t].df, calls[t].hours)

\* C10: each pass of predict_sequence appends one prediction and replaces the
\* window by itself without its oldest row plus one new last row (target =
\* the prediction, covariates = features[i] if given, else those of the
\* previous last row); the window keeps its length, the caller's window is
\* untouched, and n_steps predictions are returned.
C10_Rollout ==
    [][roll.pc = "loop" =>
        /\ roll'.initial_sequence = roll.initial_sequence
        /\ roll'.pc = "returned" => Len(roll'.predictions) = roll.n_steps
        /\ roll'.pc = "loop" =>
            LET old == roll.current_sequence
                new == roll'.current_sequence
                i == roll.i
                n == Len(old)
            IN  /\ roll'.i = i + 1
                /\ Len(roll'.predictions) = i + 1
                /\ Len(new) = roll.forecaster.sequence_length
                /\ \A r \in 1..(n - 1) : new[r] = old[r + 1]
                /\ new[n][1] = roll'.predictions[i + 1]
                /\ \A c \in 2..roll.forecaster.n_features :
                      new[n][c] = IF roll.features # None /\ i < Len(roll.features[1])
                                  THEN roll.features[1][i + 1][c - 1]
                                  ELSE old[n][c]]_vars

\* a rollout that returned after using given covariates first and repeated
\* ones after, on a window whose rows differed
C10_Witness ==
    /\ roll.pc = "returned"
    /\ roll.n_steps = MaxSteps
    /\ roll.features # None
    /\ Len(roll.features[1]) = 1
    /\ Len(roll.predictions) = MaxSteps
    /\ roll.initial_sequence[1] # roll.initial_sequence[SeqLen]
    /\ roll.features[1][1] # Tail(roll.initial_sequence[SeqLen])

\* the window given to predict_sequence has the training-time shape
RightShape ==
    /\ Len(roll.initial_sequence) = roll.forecaster.sequence_length
    /\ \A r \in DOMAIN roll.initial_sequence :
          Len(roll.initial_sequence[r]) = roll.forecaster.n_features

\* C11: a predict_sequence call given a window whose row count or column
\* count differs from the training-time shape ends by raising, never by
\* returning.
C11_ShapeMismatchRaises ==
    (roll.pc \in {"raised", "returned"} /\ ~RightShape) => roll.pc = "raised"

\* C12: an instance that loaded the saved artifact forecasts, for the same
\* input, what the instance that saved it forecast.
C12_SaveLoadRoundTrip ==
    (app.pc = "up" /\ app.loaded /\ app.origin # None) =>
        (ForecastNow # <<>> /\ ForecastNow = app.origin[1])

\* no artifact to load
NoArtifact == IF variant = "full" THEN saved = None ELSE lite_saved = None

\* C13: load_models without a persisted artifact returns False, does not
\* raise, and leaves the instance as it was.
C13_LoadMissing ==
    [][(outcome'.op = "load_models" /\ NoArtifact) =>
            (/\ outcome'.status = "ok"
             /\ outcome'.value = "False"
             /\ UNCHANGED <<trained, lstm, prophet, scaler, feature_scaler, lite>>)]_vars

\* a trained instance on which load_models found no file
C13_Witness ==
    /\ variant = "full" /\ trained /\ lstm.model # None /\ saved = None
    /\ outcome.op = "load_models" /\ outcome.value = "False"

\* C14: in initialize_system a load that finds no artifact is followed by
\* train and then save_models, a load that succeeds by no training, and the
\* instance is in the trained state whenever initialize_system has returned.
C14_BootRecovers ==
    [][/\ (app.pc = "load" /\ NoArtifact) => (app'.pc = "train" /\ outcome'.op = "load_models")
       /\ (app.pc = "load" /\ ~NoArtifact) => (app'.pc = "up" /\ outcome'.op = "load_models")
       /\ app.pc = "train" => (outcome'.op = "train" /\ app'.pc \in {"save", "crashed"})
       /\ app.pc = "save" => (outcome'.op = "save_models" /\ app'.pc \in {"up", "crashed"})
       /\ app'.pc = "up" => IF variant = "full" THEN trained' ELSE lite'.trained]_vars

\* initialize_system returned after a load of an artifact that an earlier
\* process had trained and saved
C14_Witness ==
    /\ app.pc = "up" /\ app.loaded /\ app.origin # None /\ variant = "full" /\ trained

\* the windows and targets prepare_lstm_data returned are those of the
\* claim: max(0, N - sequence_length) pairs in row order, window w the
\* scaled rows w .. w + sequence_length - 1 (target first), y the scaled
\* target of the row after the window
WindowsAsClaimed ==
    LET rows == UsableRows(prep.df)
        N == Len(rows)
        out == prep.out
        pairs == IF N > SeqLen THEN N - SeqLen ELSE 0
    IN  /\ ~out.raised
        /\ Len(out.X) = pairs
        /\ Len(out.y) = pairs
        /\ \A w \in 1..pairs :
            /\ Len(out.X[w]) = SeqLen
            /\ \A r \in 1..SeqLen :
                /\ out.X[w][r][1] = Transform(out.scaler[1], rows[w + r - 1][1])
                /\ \A c \in 1..Len(Lags) :
                      out.X[w][r][c + 1] =
                          Transform(out.feature_scaler[1][c], rows[w + r - 1][c + 1])
            /\ out.y[w] = Transform(out.scaler[1], rows[w + SeqLen][1])

\* C15 as claimed: for every number N of usable rows, 0 included,
\* prepare_lstm_data returns the max(0, N - sequence_length) pairs.
C15_WindowsForAnyN ==
    prep.pc = "windowed" => WindowsAsClaimed

\* C15 as amended: with at least one usable row prepare_lstm_data returns
\* the max(0, N - sequence_length) pairs, in order, y the value after the
\* window.
C15_Windows ==
    (prep.pc = "windowed" /\ Len(UsableRows(prep.df)) >= 1) => WindowsAsClaimed

\* several windows over rows that differ
C15_Witness ==
    /\ prep.pc = "windowed"
    /\ Len(prep.out.X) = MaxWindows
    /\ prep.out.y[1] # prep.out.X[1][SeqLen][1]

\* C16: in the frame create_lag_features returns, the lag-L column of row
\* i holds the target of row i - L whenever that row exists; after
\* handle_missing_values no row without history for some lag is left.
C16_LagFeatures ==
    prep.pc = "cleaned" =>
        /\ \A i \in 1..Len(prep.raw), k \in 1..Len(Lags) :
              /\ i > Lags[k] => prep.frame[i][k + 1] = prep.raw[i - Lags[k]]
              /\ prep.frame[i][1] = prep.raw[i]
        /\ \A j \in 1..Len(prep.clean.index), k \in 1..Len(Lags) :
              prep.clean.index[j] > Lags[k]

\* a table long enough to keep rows, with a value missing in the middle
C16_Witness ==
    /\ prep.pc = "cleaned"
    /\ Len(prep.raw) = MaxRawLen
    /\ prep.raw[1] # None /\ prep.raw[1] # prep.raw[2] /\ prep.raw[3] = None
    /\ Len(prep.clean.index) > 0

\* column c of the frame before cleaning
FrameColumn(c) == [i \in 1..Len(prep.frame) |-> prep.frame[i][c]]

\* C17: after handle_missing_values no cell is missing; observed cells are
\* unchanged; a missing cell at most 3 rows after the last observed one
\* holds that value; a later one lies on the line to the next observed
\* value (or holds the last one when none follows), so never a zero its
\* neighbours do not give; and exactly the rows with a cell that no
\* observed value precedes are dropped.
C17_MissingValues ==
    prep.pc = "cleaned" =>
        LET n == Len(prep.frame)
            index == prep.clean.index
            Leading(i) == \E c \in 1..NCols :
                            prep.frame[i][c] = None /\ LastObs(FrameColumn(c), i) = 0
        IN  /\ \A i \in 1..n : (\E j \in 1..Len(index) : index[j] = i) <=> ~Leading(i)
            /\ \A j \in 1..Len(index), c \in 1..NCols :
                LET i == index[j]
                    col == FrameColumn(c)
                    got == prep.clean.rows[j][c]
                    p == LastObs(col, i)
                    q == NextObs(col, i)
                IN  /\ got # None
                    /\ col[i] # None => got[1] = F * col[i][1]
                    /\ (col[i] = None /\ (i - p <= 3 \/ q > n)) => got[1] = F * col[p][1]
                    /\ (col[i] = None /\ i - p > 3 /\ q <= n) =>
                          /\ got[1] * (q - p - 3) =
                                F * col[p][1] * (q - p - 3)
                                    + (i - p - 3) * F * (col[q][1] - col[p][1])
                          /\ \/ F * col[p][1] <= got[1] /\ got[1] <= F * col[q][1]
                             \/ F * col[q][1] <= got[1] /\ got[1] <= F * col[p][1]

\* a run of four missing values between two different observed ones: three
\* forward-filled, the fourth interpolated
C17_Witness ==
    /\ prep.pc = "cleaned"
    /\ Len(prep.raw) = 6
    /\ prep.raw[1] # None /\ prep.raw[6] # None /\ prep.raw[1] # prep.raw[6]
    /\ \A i \in 2..5 : prep.raw[i] = None
    /\ Len(prep.clean.index) > 0

\* the indices (from 0) a result lists, and whether it lists them in
\* ascending order, each once
Indices(anomalies) == {anomalies[j].index : j \in 1..Len(anomalies)}
Ascending(anomalies) ==
    \A j \in 1..Len(anomalies) - 1 : anomalies[j].index < anomalies[j + 1].index

\* C18: detect_zscore_anomalies flags index i iff the centred window of i
\* lies inside the series, its standard deviation is not zero and
\* |value[i] - mean| / std > threshold; a flagged index is 'high' exactly
\* when its z-score exceeds 1.5 * threshold, 'medium' otherwise; an index
\* whose window does not fit (the edges, a series shorter than the window)
\* is never flagged.  Compared as squares: with S the sum and Q the sum of
\* squares over the window of w samples, z^2 = (w*x - S)^2 (w-1) / (w (w*Q - S^2)).
C18_ZScore ==
    det.op = "detect_zscore_anomalies" =>
        LET data == det.data
            n == Len(data)
            w == det.window
            t == det.threshold
            before == (w - 1) - ((w - 1) \div 2)
            after == (w - 1) \div 2
            Defined(i) == i - before >= 1 /\ i + after <= n
            S(i) == SumOver(data, (i - before)..(i + after))
            Q(i) == SumOver([k \in 1..n |-> data[k] * data[k]], (i - before)..(i + after))
            \* z(i) > (fn/fd) * t
            Exceeds(i, fn, fd) ==
                /\ w * Q(i) - S(i) * S(i) > 0
                /\ (w * data[i] - S(i)) * (w * data[i] - S(i)) * (w - 1) * t.d * t.d * fd * fd
                       > t.n * t.n * fn * fn * w * (w * Q(i) - S(i) * S(i))
        IN  /\ Indices(det.anomalies) = {i - 1 : i \in {k \in 1..n : Defined(k) /\ Exceeds(k, 1, 1)}}
            /\ Ascending(det.anomalies)
            /\ \A j \in 1..Len(det.anomalies) :
                LET a == det.anomalies[j]
                IN  /\ Defined(a.index + 1)
                    /\ a.value = data[a.index + 1]
                    /\ a.severity = (IF Exceeds(a.index + 1, 3, 2) THEN "high" ELSE "medium")

\* one call that reports a 'high' and a 'medium' index and leaves the edges
\* of the series out
C18_Witness ==
    /\ det.op = "detect_zscore_anomalies"
    /\ Len(det.data) = DetLen
    /\ \E j, k \in 1..Len(det.anomalies) :
          det.anomalies[j].severity = "high" /\ det.anomalies[k].severity = "medium"
    /\ 0 \notin Indices(det.anomalies)

KthSmallest(data, k) ==
    CHOOSE v \in {data[i] : i \in 1..Len(data)} :
        /\ Cardinality({i \in 1..Len(data) : data[i] < v}) < k
        /\ Cardinality({i \in 1..Len(data) : data[i] <= v}) >= k

\* the quartile at q/4 of all of data, times 4: rank 1 + (n-1) q/4, between
\* two ranks in proportion
Quartile4(data, q) ==
    LET rank4 == 4 + (Len(data) - 1) * q
        below == KthSmallest(data, rank4 \div 4)
    IN  IF rank4 % 4 = 0 THEN 4 * below
        ELSE 4 * below + (rank4 % 4) * (KthSmallest(data, rank4 \div 4 + 1) - below)

\* C20: detect_iqr_anomalies flags a sample iff its value is below
\* Q1 - 1.5 IQR or above Q3 + 1.5 IQR, the quartiles taken over all the
\* samples given; a flagged sample is 'high' exactly when it lies more than
\* one further IQR beyond the bound it violates, 'medium' otherwise.
\* (In eighths: 8 Q1 - 12 IQR, 8 Q3 + 12 IQR, one IQR = 8 IQR.)
C20_Iqr ==
    det.op = "detect_iqr_anomalies" =>
        LET data == det.data
            q1 == Quartile4(data, 1)
            q3 == Quartile4(data, 3)
            Below(i, extra) == 8 * data[i] < 2 * q1 - 3 * (q3 - q1) - extra * 2 * (q3 - q1)
            Over(i, extra) == 8 * data[i] > 2 * q3 + 3 * (q3 - q1) + extra * 2 * (q3 - q1)
        IN  /\ Indices(det.anomalies) =
                  {i - 1 : i \in {k \in 1..Len(data) : Below(k, 0) \/ Over(k, 0)}}
            /\ Ascending(det.anomalies)
            /\ \A j \in 1..Len(det.anomalies) :
                LET a == det.anomalies[j]
                    i == a.index + 1
                IN  /\ a.value = data[i]
                    /\ a.severity \in {"high", "medium"}
                    /\ a.severity = "high" <=> (Below(i, 1) \/ Over(i, 1))

\* a sample outside the bounds but inside the extended band, among samples
\* that are not flagged and with quartiles that differ
C20_Witness ==
    /\ det.op = "detect_iqr_anomalies"
    /\ \E j \in 1..Len(det.anomalies) : det.anomalies[j].severity = "medium"
    /\ Len(det.anomalies) < Len(det.data)
    /\ Quartile4(det.data, 1) < Quartile4(det.data, 3)

C22_Scenario ==
    (det.op = "ready" /\ det.given = ScenarioFrame /\ Len(det.analyses) >= 1) =>
        LET r == det.analyses[1]
            At(list, index) == {list[j] : j \in {k \in 1..Len(list) : list[k].index = index}}
        IN  /\ \E a \in At(r.zscore_anomalies, 100) : a.severity = "high" /\ a.value = 1000
            /\ \E a \in At(r.iqr_anomalies, 100) : a.severity = "high" /\ a.value = 1000
            /\ \E a \in At(r.sudden_changes, 100) : a.type = "spike"
            /\ \E a \in At(r.sudden_changes, 101) : a.type = "drop"

\* the scenario has been analysed by a detector with threshold 3.0 and
\* window 24
C22_Witness ==
    /\ det.op = "ready" /\ det.given = ScenarioFrame
    /\ det.self = [threshold |-> [n |-> 3, d |-> 1], window |-> 24]
    /\ Len(det.analyses) >= 1
    /\ Len(det.given.energy_demand) = 200
    /\ Len(det.analyses[1].sudden_changes) = 2

\* C23: two calls of analyze_anomalies on the same window return the same
\* three anomaly lists, the same total and the same anomaly rate, and the
\* window and the detector's threshold and window settings are as they were
\* before the calls.
C23_AnalyzeIdempotent ==
    (det.op = "ready" /\ Len(det.analyses) >= 1) =>
        /\ det.df = det.given
        /\ det.self = det.made
        /\ Len(det.analyses) = 2 =>
              /\ det.analyses[1].zscore_anomalies = det.analyses[2].zscore_anomalies
              /\ det.analyses[1].iqr_anomalies = det.analyses[2].iqr_anomalies
              /\ det.analyses[1].sudden_changes = det.analyses[2].sudden_changes
              /\ det.analyses[1].total_anomalies = det.analyses[2].total_anomalies
              /\ det.analyses[1].anomaly_rate = det.analyses[2].anomaly_rate

\* two calls on a window in which every method has found something
C23_Witness ==
    /\ det.op = "ready" /\ Len(det.analyses) = 2
    /\ det.analyses[2].zscore_anomalies # <<>>
    /\ det.analyses[2].iqr_anomalies # <<>>
    /\ det.analyses[2].sudden_changes # <<>>
    /\ det.analyses[2].anomaly_rate > 0
    /\ det.analyses[2].total_anomalies >
           Len(det.analyses[2].zscore_anomalies) + Len(det.analyses[2].iqr_anomalies)

\* confidence b is not above confidence a: by their brackets, or, both being
\* 85 * exp(-exponent) clipped the same way, by b's exponent not being the
\* smaller one
NotAbove(b, a) ==
    \/ b.high <= a.low
    \/ /\ b.exponent.num * a.exponent.den >= a.exponent.num * b.exponent.den
       /\ b.low <= a.low /\ b.high <= a.high

\* C24: in the light variant's predict_with_confidence with hours_ahead >= 1
\* the first step's confidence is the base 85, no step's confidence is above
\* that of the step before it, and every confidence lies in [60, 95].
C24_LiteConfidenceDecays ==
    (variant = "light" /\ outcome.op = "predict_with_confidence" /\ outcome.hours >= 1) =>
        LET rows == outcome.results
        IN  /\ Len(rows) = outcome.hours
            /\ rows[1].confidence.low = 85 /\ rows[1].confidence.high = 85
            /\ \A k \in 1..Len(rows) :
                  /\ 60 <= rows[k].confidence.low
                  /\ rows[k].confidence.low <= rows[k].confidence.high
                  /\ rows[k].confidence.high <= 95
            /\ \A k \in 1..Len(rows) - 1 :
                  NotAbove(rows[k + 1].confidence, rows[k].confidence)

\* a horizon on which the confidence starts at 85, decays over two steps
\* strictly between the floor and the base, and ends on the floor of 60
C24_Witness ==
    /\ variant = "light" /\ outcome.op = "predict_with_confidence"
    /\ outcome.hours = MaxHorizon
    /\ Len(outcome.results) = MaxHorizon
    /\ outcome.results[1].confidence.high = 85 /\ outcome.results[1].confidence.low = 85
    /\ outcome.results[2].confidence.high = 85 /\ outcome.results[2].confidence.low = 60
    /\ outcome.results[3].confidence.high = 85 /\ outcome.results[3].confidence.low = 60
    /\ outcome.results[MaxHorizon].confidence.high = 60

\* the light variant's statistics and pattern tables are all populated
LitePopulated(m) ==
    /\ m.historical_mean # None /\ m.historical_std # None
    /\ m.hourly_patterns # None /\ m.daily_patterns # None

\* C25: in every sequence of train, predict, save_models and load_models of
\* either variant a forecast is made from fitted state only: when the
\* sequence forecaster's values have gone through inverse_scale the target
\* scaler has been fit, and they are the inverse of that fit; when the light
\* variant has looked its patterns up its tables are populated, and an
\* instance marked trained (by train or by a load) always has them.
C25_FitBeforeUse ==
    /\ (variant = "full" /\ outcome.op \in PredictOps /\ outcome.lstm_pred # None) =>
          /\ scaler # None
          /\ \A k \in 1..Len(outcome.lstm_pred[1]) :
                \E x \in 0..D * (1 + 2 * MaxBias) :
                    outcome.lstm_pred[1][k] = inverse_scale(scaler[1], x - D * MaxBias)
    /\ (variant = "light" /\ outcome.op \in PredictOps) =>
          /\ lite.trained /\ LitePopulated(lite)
          /\ \A k \in 1..Len(outcome.results) :
                LET row == IF outcome.op = "predict" THEN outcome.results[k]
                           ELSE outcome.results[k].row
                IN  row.base = Get(lite.hourly_patterns[1], row.hour, lite.historical_mean[1])
    /\ (variant = "light" /\ lite.trained) => LitePopulated(lite)

\* the light variant forecasts after an untrained instance was saved: the
\* file holds empty tables, and the forecast was made from tables built by
\* the call itself
C25_Witness ==
    /\ variant = "light" /\ outcome.op \in PredictOps
    /\ outcome.results # <<>>
    /\ lite_saved # None /\ ~lite_saved[1].trained /\ ~LitePopulated(lite_saved[1])

\* the full variant's sequence forecaster has returned values through
\* inverse_scale
C25_WitnessFull ==
    /\ variant = "full" /\ outcome.op \in PredictOps
    /\ outcome.lstm_pred # None /\ outcome.status = "ok"

LstmPredictOps == {"lstm.predict", "lstm.predict_sequence"}

\* C26: LSTMForecaster.predict and predict_sequence, of either class, raise
\* as long as the instance holds no model or a model that build_model made
\* and nothing has trained or loaded since; such a call returns no
\* predictions.
C26_UntrainedRaises ==
    [][(/\ outcome'.op \in LstmPredictOps
        /\ outcome' # outcome
        /\ lstm.model = None \/ lstm.model[1].origin = "built")
          => outcome'.status = "error"]_vars

\* the keras class: a prediction returned by a model that was only built
C26_BuiltPredicts ==
    /\ variant = "full"
    /\ outcome.op = "lstm.predict" /\ outcome.status = "ok"
    /\ outcome.results # <<>>
    /\ lstm.model # None /\ lstm.model[1].origin = "built" /\ ~lstm.model[1].fitted

\* C27: in every row predict returns, of either variant, the single-model
\* fallback and negative point estimates included,
\* lower_bound <= predicted_demand <= upper_bound.  (A light-variant row's
\* bounds are its point estimate -/+ 0.3 * std: they are in order iff the
\* standard deviation is a number and not negative.)
C27_BoundsOrdered ==
    (outcome.op \in PredictOps /\ outcome.status = "ok") =>
        \A k \in 1..Len(outcome.results) :
            IF variant = "full"
            THEN /\ outcome.results[k].lower_bound <= outcome.results[k].predicted_demand
                 /\ outcome.results[k].predicted_demand <= outcome.results[k].upper_bound
            ELSE LET row == IF outcome.op = "predict" THEN outcome.results[k]
                            ELSE outcome.results[k].row
                 IN  row.std.sq_den > 0 /\ row.std.sq_num >= 0

\* a fallback forecast below zero whose band is upside down
C27_InvertedBand ==
    /\ variant = "full" /\ outcome.op = "predict" /\ outcome.status = "ok"
    /\ outcome.lstm_pred = None /\ outcome.prophet_pred # None
    /\ \E k \in 1..Len(outcome.results) :
          /\ outcome.results[k].predicted_demand < 0
          /\ outcome.results[k].upper_bound < outcome.results[k].predicted_demand
          /\ outcome.results[k].predicted_demand < outcome.results[k].lower_bound

\* C28: whenever the full EnsemblePredictor is marked trained, after any
\* sequence of train, save_models, load_models and predict, both
\* sub-forecasters can predict: the sequence forecaster holds a network, the
\* network and the forecaster's n_features have the width of the
\* preprocessor's windows, and the trend forecaster is fitted.
C28_TrainedMeansReady ==
    (variant = "full" /\ trained) =>
        /\ lstm.model # None
        /\ lstm.model[1].n_in = NCols
        /\ lstm.n_features = NCols
        /\ prophet.fitted

\* marked trained by a load: a network is there, of the right width, but
\* the forecaster's n_features is the constructor's and the trend forecaster
\* was never fit
C28_LoadedNotReady ==
    /\ variant = "full" /\ trained
    /\ outcome.op = "load_models" /\ outcome.value = "True"
    /\ lstm.model # None /\ lstm.model[1].n_in = NCols
    /\ lstm.n_features = N_FEATURES_DEFAULT /\ lstm.n_features # NCols
    /\ ~prophet.fitted

\* C29: in the light variant, after any sequence of train, save_models and
\* load_models, a load_models that returns True leaves the instance marked
\* trained with its mean, standard deviation and both pattern tables
\* populated.
C29_LiteLoadReady ==
    (variant = "light" /\ outcome.op = "load_models" /\ outcome.value = "True") =>
        (lite.trained /\ LitePopulated(lite))

\* load_models has returned True on a file an untrained instance wrote
C29_LoadedUntrained ==
    /\ variant = "light" /\ outcome.op = "load_models" /\ outcome.value = "True"
    /\ ~lite.trained /\ ~LitePopulated(lite)
    /\ lite_saved = Some(NewLite)

\* C30: train and predict of either variant leave the table the caller
\* passed as it was: no column added, removed or rewritten.
C30_TableUnchanged ==
    [][(app.pc = "up" /\ app'.pc = "up" /\ outcome'.op \in {"train", "predict"})
          => app'.data = app.data]_vars

\* the light variant has trained on the caller's table, which now has the
\* columns hour and day_of_week beside energy_demand
C30_ColumnsAdded ==
    /\ variant = "light" /\ app.pc = "up"
    /\ outcome.op \in {"train", "predict"} /\ outcome.status = "ok"
    /\ DOMAIN app.data[1] = {"energy_demand", "hour", "day_of_week"}


=============================================================================
